---- MODULE Spec2Model ----
(***************************************************************************)
(* Model of Vector<tipodato, Allocator> of cppvector.h, the variant that   *)
(* is compiled for __cplusplus >= 202002L.                                 *)
(*                                                                         *)
(* The heap is a set of blocks; a block is a run of cells, and a cell      *)
(* records whether an element is constructed in it and which value it      *)
(* holds.  The container is the three fields datos_, tamano_, capacidad_.  *)
(* Every member function is an operator from a machine state (the fields   *)
(* plus the heap) to a machine state, written statement by statement, and  *)
(* every action applies one public member function.                        *)
(***************************************************************************)
EXTENDS Integers, Sequences, FiniteSets, TLC

\* ---------------------------------------------------------------- bounds
MaxCap == 4        \* largest capacity the model lets the container reach
MaxVal == 2        \* element values are 1..MaxVal
MaxIns == 2        \* longest literal list, inserted vector or range
MaxBlocks == 3     \* heap blocks that can be allocated at the same time
MaxDos == 2        \* longest sequence while a second container is alive

Values == 1..MaxVal
Blocks == 1..MaxBlocks

\* content of storage that holds no constructed element
Indet == 0
\* content of an element a move constructor has taken the value from
Movido == 0 - 1
nullptr == 0

\* kinds of element type: trivially copyable (int), and a class type with a
\* destructor and a move constructor that may throw
TiposDato == {"trivial", "mueve"}

\* tipo: the kind of tipodato; datos_, tamano_, capacidad_: the fields of
\* the Vector; heap: the blocks of the allocator; last: the outcome of the
\* last call; nPush: how many push_back calls, and nothing else, a default
\* constructed Vector has completed (-1 when that is not its history);
\* otro: the fields of a second Vector of the same program, with viva telling
\* whether it has been constructed and not yet destroyed; is_sorted_hint: the
\* cached flag that tells that the live range is known to be non-decreasing;
\* cursor: two cursors a and b of one class into the Vector, each the slot
\* its ptr points to counted from datos_, with the last cursor operation
\* called (op) and what it returned (res)
VARIABLES tipo, datos_, tamano_, capacidad_, heap, last, nPush, otro,
          is_sorted_hint, cursor

vars == <<tipo, datos_, tamano_, capacidad_, heap, last, nPush, otro,
          is_sorted_hint, cursor>>

\* ------------------------------------------------------------------ heap
CeldaVacia == [viva |-> FALSE, val |-> Indet]
BloqueLibre == [n |-> 0, por |-> "libre", celdas |-> <<>>]

\* no second Vector
Ninguno == [viva |-> FALSE, datos |-> nullptr, tamano |-> 0, capacidad |-> 0]

\* the machine state the member functions work on: the fields of *this, the
\* heap, the outcome of the call, and in o the fields of the other Vector
Self ==
  [datos |-> datos_, tamano |-> tamano_, capacidad |-> capacidad_,
   heap |-> heap, exc |-> "none", ret |-> 0,
   ub |-> FALSE, dc |-> FALSE, dd |-> FALSE, o |-> otro]

EnBloque(s, b, i) == b # nullptr /\ i >= 0 /\ i < s.heap[b].n

\* *(b + i); reading outside the block gives an indeterminate value
Leer(s, b, i) == IF EnBloque(s, b, i) THEN s.heap[b].celdas[i + 1] ELSE CeldaVacia

Escribir(s, b, i, c) ==
  IF EnBloque(s, b, i)
    THEN [s EXCEPT !.heap[b].celdas[i + 1] = c]
    ELSE [s EXCEPT !.ub = TRUE]

alloc_construct(s, b, i, val) ==
  LET r == Escribir(s, b, i, [viva |-> TRUE, val |-> val])
  IN [r EXCEPT !.dc = s.dc \/ (tipo # "trivial" /\ Leer(s, b, i).viva)]

\* the destructor of a trivially copyable type does nothing; destroying a
\* class object that is not alive is undefined
alloc_destroy(s, b, i) ==
  IF tipo = "trivial" THEN s
  ELSE LET c == Leer(s, b, i)
           r == Escribir(s, b, i, CeldaVacia)
       IN [r EXCEPT !.dd = s.dd \/ ~c.viva, !.ub = r.ub \/ ~c.viva]

\* std::move(b[i]) handed to a constructor: what the source holds afterwards
std_move(s, b, i) ==
  IF tipo = "mueve" /\ EnBloque(s, b, i)
    THEN [s EXCEPT !.heap[b].celdas[i + 1].val = Movido]
    ELSE s

\* alloc_construct(alloc, &dst[i], std::move(src[j]))
\* moving from a class object that is not alive is undefined
ConstruirMoviendo(s, dst, i, src, j) ==
  LET r == std_move(alloc_construct(s, dst, i, Leer(s, src, j).val), src, j)
  IN [r EXCEPT !.ub = r.ub \/ (tipo # "trivial" /\ ~Leer(s, src, j).viva)]

HayLibre(s) == \E b \in Blocks : s.heap[b].por = "libre"
PrimerLibre(s) ==
  CHOOSE b \in Blocks : s.heap[b].por = "libre"
                        /\ \A c \in Blocks : c < b => s.heap[c].por # "libre"

\* alloc.allocate(n) and new tipodato[n]: the block is in ret
allocate(s, n, por) ==
  IF ~HayLibre(s) THEN [s EXCEPT !.exc = "bad_alloc"]
  ELSE LET b == PrimerLibre(s)
       IN [s EXCEPT !.ret = b,
                    !.heap[b] = [n |-> n, por |-> por,
                                 celdas |-> [k \in 1..n |-> CeldaVacia]]]

\* storage released while a class object is still alive in it: the object's
\* destructor is never run
deallocate(s, b, n) ==
  [s EXCEPT !.heap[b] = BloqueLibre,
            !.dd = s.dd \/ (tipo # "trivial"
                            /\ \E k \in 1..s.heap[b].n : s.heap[b].celdas[k].viva)]

\* ------------------------------------------------------------- observers
\* the values of the live range, what a caller reads through operator[]
ContenidoDe(s) == [k \in 1..s.tamano |-> Leer(s, s.datos, k - 1).val]
Contenido == ContenidoDe(Self)

\* ------------------------------------------------------- cambiarCapacidad
RECURSIVE DestruirRango(_, _, _, _)
\* for (j = desde; j < hasta; ++j) alloc_destroy(alloc, &b[j]);
DestruirRango(s, b, desde, hasta) ==
  IF desde >= hasta THEN s
  ELSE DestruirRango(alloc_destroy(s, b, desde), b, desde + 1, hasta)

RECURSIVE MoverANuevo(_, _, _, _)
\* for (; i < tamano_; ++i) alloc_construct(alloc, &nuevo[i], std::move(datos_[i]));
\* the construction of element number falla (counted from 1) throws
MoverANuevo(s, nuevo, i, falla) ==
  IF i >= s.tamano THEN s
  ELSE IF falla = i + 1 THEN [s EXCEPT !.exc = "ctor", !.ret = i]
  ELSE MoverANuevo(ConstruirMoviendo(s, nuevo, i, s.datos, i), nuevo, i + 1, falla)

cambiarCapacidad(s, nuevaCapacidad, falla) ==
  IF nuevaCapacidad <= s.capacidad THEN s
  ELSE
    LET a == allocate(s, nuevaCapacidad, "alloc")
        nuevo == a.ret
        m == MoverANuevo(a, nuevo, 0, falla)
    IN IF a.exc # "none" THEN a
       ELSE IF m.exc # "none"
         THEN deallocate(DestruirRango(m, nuevo, 0, m.ret), nuevo, nuevaCapacidad)
       ELSE
         LET d == DestruirRango(m, s.datos, 0, s.tamano)
             f == IF s.datos # nullptr THEN deallocate(d, s.datos, s.capacidad) ELSE d
         IN [f EXCEPT !.datos = nuevo, !.capacidad = nuevaCapacidad]

\* growth by one slot instead of doubling
DobleMutante(s) == s.capacidad + 1

\* capacidad_ == 0 ? 1 : capacidad_ * 2
Doble(s) == IF s.capacidad = 0 THEN 1 ELSE s.capacidad * 2

\* ------------------------------------------------------------ agregarFinal
agregarFinal(s, dato, falla) ==
  LET c == IF s.tamano = s.capacidad THEN cambiarCapacidad(s, Doble(s), falla) ELSE s
  IN IF c.exc # "none" THEN c
     ELSE [alloc_construct(c, c.datos, c.tamano, dato) EXCEPT !.tamano = c.tamano + 1]

emplace_back(s, dato, falla) ==
  LET c == IF s.tamano = s.capacidad THEN cambiarCapacidad(s, Doble(s), falla) ELSE s
  IN IF c.exc # "none" THEN c
     ELSE [alloc_construct(c, c.datos, c.tamano, dato) EXCEPT !.tamano = c.tamano + 1]

\* ---------------------------------------------------------------- memmove
RECURSIVE CopiarBytes(_, _, _, _, _, _, _)
\* cells dst .. dst+n-1 of block b take what cells src .. src+n-1 held in s0
CopiarBytes(s, s0, b, dst, src, k, n) ==
  IF k >= n THEN s
  ELSE LET w == Escribir(s, b, dst + k, Leer(s0, b, src + k))
           u == IF EnBloque(s0, b, src + k) THEN w ELSE [w EXCEPT !.ub = TRUE]
       IN CopiarBytes(u, s0, b, dst, src, k + 1, n)

\* std::memmove(&datos_[dst], &datos_[src], sizeof(tipodato) * n); n is a
\* size_t, so a negative n is a count near 2^64 and the copy leaves the heap
memmove(s, dst, src, n) ==
  IF n < 0 THEN [s EXCEPT !.exc = "crash", !.ub = TRUE]
  ELSE CopiarBytes(s, s, s.datos, dst, src, 0, n)

\* ------------------------------------------------------ emplace, insertar
RECURSIVE DesplazarDerecha(_, _, _)
\* for (i = desde; i > indice; --i) { construct(&datos_[i], move(datos_[i-1]));
\*                                    destroy(&datos_[i-1]); }
DesplazarDerecha(s, i, indice) ==
  IF i <= indice THEN s
  ELSE DesplazarDerecha(
         alloc_destroy(ConstruirMoviendo(s, s.datos, i, s.datos, i - 1), s.datos, i - 1),
         i - 1, indice)

emplace(s, indice, dato, falla) ==
  IF indice > s.tamano THEN [s EXCEPT !.exc = "out_of_range"]
  ELSE
    LET c == IF s.tamano = s.capacidad THEN cambiarCapacidad(s, Doble(s), falla) ELSE s
        d == DesplazarDerecha(c, c.tamano, indice)
    IN IF c.exc # "none" THEN c
       ELSE [alloc_construct(d, d.datos, indice, dato) EXCEPT !.tamano = d.tamano + 1]

\* the tail is not shifted: the new value overwrites datos_[indice]
insertarMutante(s, indice, dato, falla) ==
  IF indice > s.tamano THEN [s EXCEPT !.exc = "out_of_range"]
  ELSE
    LET c == IF s.tamano = s.capacidad THEN cambiarCapacidad(s, Doble(s), falla) ELSE s
    IN IF c.exc # "none" THEN c
       ELSE [alloc_construct(c, c.datos, indice, dato) EXCEPT !.tamano = c.tamano + 1]

insertar(s, indice, dato, falla) ==
  IF indice > s.tamano THEN [s EXCEPT !.exc = "out_of_range"]
  ELSE
    LET c == IF s.tamano = s.capacidad THEN cambiarCapacidad(s, Doble(s), falla) ELSE s
        d == IF tipo = "trivial"
               THEN memmove(c, indice + 1, indice, c.tamano - indice)
               ELSE DesplazarDerecha(c, c.tamano, indice)
    IN IF c.exc # "none" THEN c
       ELSE [alloc_construct(d, d.datos, indice, dato) EXCEPT !.tamano = d.tamano + 1]

\* ----------------------------------------------------------------- erase
RECURSIVE DesplazarIzquierda(_, _)
\* for (i = desde; i < tamano_ - 1; ++i) { construct(&datos_[i], move(datos_[i+1]));
\*                                         destroy(&datos_[i+1]); }
DesplazarIzquierda(s, i) ==
  IF i >= s.tamano - 1 THEN s
  ELSE DesplazarIzquierda(
         alloc_destroy(ConstruirMoviendo(s, s.datos, i, s.datos, i + 1), s.datos, i + 1),
         i + 1)

\* the tail is not shifted left: the last element is the one that goes
eliminarMutante(s, indice) ==
  IF indice >= s.tamano THEN [s EXCEPT !.exc = "out_of_range"]
  ELSE [alloc_destroy(s, s.datos, s.tamano - 1) EXCEPT !.tamano = s.tamano - 1]

eliminar(s, indice) ==
  IF indice >= s.tamano THEN [s EXCEPT !.exc = "out_of_range"]
  ELSE LET d == DesplazarIzquierda(alloc_destroy(s, s.datos, indice), indice)
       IN [d EXCEPT !.tamano = d.tamano - 1]

\* a cursor is the offset of its ptr from datos_
erase_it(s, it) ==
  IF it < 0 \/ it >= s.tamano THEN [s EXCEPT !.exc = "out_of_range"]
  ELSE LET idx == it
           x == alloc_destroy(s, s.datos, idx)
           d == IF tipo = "trivial"
                  THEN memmove(x, idx, idx + 1, x.tamano - idx - 1)
                  ELSE DesplazarIzquierda(x, idx)
       IN [d EXCEPT !.tamano = d.tamano - 1, !.ret = idx]

RECURSIVE MoverRango(_, _, _, _, _)
\* for (i = 0; i < n; ++i) { construct(&datos_[start + i], move(datos_[end + i]));
\*                           destroy(&datos_[end + i]); }
MoverRango(s, start, end, i, n) ==
  IF i >= n THEN s
  ELSE MoverRango(
         alloc_destroy(ConstruirMoviendo(s, s.datos, start + i, s.datos, end + i),
                       s.datos, end + i),
         start, end, i + 1, n)

\* the tail is moved from last - 1 instead of last
erase_rangoMutante(s, first, last_) ==
  IF first = last_ THEN [s EXCEPT !.ret = first]
  ELSE
    LET n == s.tamano - last_
        d == IF tipo = "trivial" THEN memmove(s, first, last_ - 1, n)
             ELSE MoverRango(s, first, last_ - 1, 0, n)
    IN IF n < 0 \/ s.tamano - (last_ - first) < 0
         THEN [s EXCEPT !.exc = "crash", !.ub = TRUE]
         ELSE [d EXCEPT !.tamano = d.tamano - (last_ - first), !.ret = first]

\* tamano_ -= count in size_t arithmetic: a result below zero is a length
\* near 2^64, and the first use of it leaves the heap
erase_rango(s, first, last_) ==
  IF first = last_ THEN [s EXCEPT !.ret = first]
  ELSE
    LET start == first
        end == last_
        count == end - start
        n == s.tamano - end
        d == IF tipo = "trivial" THEN memmove(s, start, end, n)
             ELSE MoverRango(s, start, end, 0, n)
    IN IF n < 0 \/ s.tamano - count < 0
         THEN [s EXCEPT !.exc = "crash", !.ub = TRUE]
         ELSE [d EXCEPT !.tamano = d.tamano - count, !.ret = start]

eliminarFinal(s) ==
  IF s.tamano = 0 THEN [s EXCEPT !.exc = "out_of_range"]
  ELSE alloc_destroy([s EXCEPT !.tamano = s.tamano - 1], s.datos, s.tamano - 1)

\* ------------------------------------------------------- reducirCapacidad
RECURSIVE CopiarANuevo(_, _, _)
\* std::ranges::copy(subrange{begin(), begin() + tamano_}, nuevo): nuevo[i] = datos_[i]
CopiarANuevo(s, nuevo, i) ==
  IF i >= s.tamano THEN s
  ELSE CopiarANuevo(
         Escribir(s, nuevo, i, [viva |-> TRUE, val |-> Leer(s, s.datos, i).val]),
         nuevo, i + 1)

\* delete[] datos_.  On a block that came from alloc.allocate this is
\* undefined: the build either releases the block as free() would, or (rompe,
\* for a class type, whose arrays carry an element count in front) it stops
delete_array(s, b, rompe) ==
  IF b = nullptr THEN s
  ELSE IF s.heap[b].por = "new"
    THEN deallocate(DestruirRango(s, b, 0, s.heap[b].n), b, s.heap[b].n)
  ELSE IF rompe THEN [s EXCEPT !.exc = "crash", !.ub = TRUE]
  ELSE [deallocate(s, b, s.heap[b].n) EXCEPT !.ub = TRUE]

reducirCapacidad(s, rompe) ==
  IF s.capacidad > s.tamano
    THEN LET a == allocate(s, s.tamano, "new")
             nuevo == a.ret
             c == CopiarANuevo(a, nuevo, 0)
             d == delete_array(c, s.datos, rompe)
         IN IF a.exc # "none" THEN a
            ELSE IF d.exc # "none" THEN d
            ELSE [d EXCEPT !.datos = nuevo, !.capacidad = s.tamano, !.ret = 0]
    ELSE s

\* ---------------------------------------------------------- redimensionar
RECURSIVE Rellenar(_, _, _, _)
\* for (i = desde; i < hasta; i++) alloc_construct(alloc, &datos_[i], dato);
Rellenar(s, i, hasta, dato) ==
  IF i >= hasta THEN s
  ELSE Rellenar(alloc_construct(s, s.datos, i, dato), i + 1, hasta, dato)

\* the fill loop starts one slot late
redimensionarMutante(s, nuevoTam, dato, falla, rompe) ==
  IF nuevoTam < s.tamano
    THEN LET d == [DestruirRango(s, s.datos, nuevoTam, s.tamano) EXCEPT !.tamano = nuevoTam]
         IN IF d.tamano < d.capacidad \div 2 THEN reducirCapacidad(d, rompe) ELSE d
    ELSE LET c == IF nuevoTam > s.capacidad THEN cambiarCapacidad(s, nuevoTam, falla) ELSE s
         IN IF c.exc # "none" THEN c
            ELSE [Rellenar(c, c.tamano + 1, nuevoTam, dato) EXCEPT !.tamano = nuevoTam, !.ret = 0]

redimensionar(s, nuevoTam, dato, falla, rompe) ==
  IF nuevoTam < s.tamano
    THEN LET d == [DestruirRango(s, s.datos, nuevoTam, s.tamano) EXCEPT !.tamano = nuevoTam]
         IN IF d.tamano < d.capacidad \div 2 THEN reducirCapacidad(d, rompe) ELSE d
    ELSE LET c == IF nuevoTam > s.capacidad THEN cambiarCapacidad(s, nuevoTam, falla) ELSE s
         IN IF c.exc # "none" THEN c
            ELSE [Rellenar(c, c.tamano, nuevoTam, dato) EXCEPT !.tamano = nuevoTam, !.ret = 0]

\* the capacity asked for is rounded up to twice the current one
reservarMutante(s, nuevaCapacidad, falla) ==
  IF nuevaCapacidad > s.capacidad
    THEN [cambiarCapacidad(s, IF nuevaCapacidad >= s.capacidad * 2 THEN nuevaCapacidad
                              ELSE s.capacidad * 2, falla) EXCEPT !.ret = 0]
    ELSE s

reservar(s, nuevaCapacidad, falla) ==
  IF nuevaCapacidad > s.capacidad
    THEN [cambiarCapacidad(s, nuevaCapacidad, falla) EXCEPT !.ret = 0]
    ELSE s

\* ------------------------------------------------------------ clear, vaciar
\* capacidad_ = 0 is forgotten
clearMutante(s) ==
  LET d == DestruirRango(s, s.datos, 0, s.tamano)
      f == IF s.datos # nullptr
             THEN [deallocate(d, s.datos, s.capacidad) EXCEPT !.datos = nullptr]
             ELSE d
  IN [f EXCEPT !.tamano = 0]

clear(s) ==
  LET d == DestruirRango(s, s.datos, 0, s.tamano)
      f == IF s.datos # nullptr
             THEN [deallocate(d, s.datos, s.capacidad) EXCEPT !.datos = nullptr]
             ELSE d
  IN [f EXCEPT !.tamano = 0, !.capacidad = 0]

\* the block is released as clear() releases it
vaciarMutante(s) == clear(s)

vaciar(s) == [DestruirRango(s, s.datos, 0, s.tamano) EXCEPT !.tamano = 0]

\* ------------------------------------------------------ aumentarCapacidad
Max(a, b) == IF a >= b THEN a ELSE b

RECURSIVE MoverYDestruir(_, _, _, _)
\* for (i = 0; i < tamano_; ++i) { construct(&new_data[i], move(datos_[i]));
\*                                 destroy(&datos_[i]); }
\* there is no handler: a construction that throws leaves the loop where it is
MoverYDestruir(s, new_data, i, falla) ==
  IF i >= s.tamano THEN s
  ELSE IF falla = i + 1 THEN [s EXCEPT !.exc = "ctor"]
  ELSE MoverYDestruir(
         alloc_destroy(ConstruirMoviendo(s, new_data, i, s.datos, i), s.datos, i),
         new_data, i + 1, falla)

aumentarCapacidad(s, new_size, falla) ==
  IF new_size <= s.capacidad THEN s
  ELSE
    LET new_cap == Max(new_size, s.capacidad * 2)
        a == allocate(s, new_cap, "alloc")
        new_data == a.ret
        m == MoverYDestruir(a, new_data, 0, falla)
        f == IF s.datos # nullptr THEN deallocate(m, s.datos, s.capacidad) ELSE m
    IN IF a.exc # "none" THEN a
       ELSE IF m.exc # "none" THEN [m EXCEPT !.ret = 0]
       ELSE [f EXCEPT !.datos = new_data, !.capacidad = new_cap, !.ret = 0]

\* ------------------------------------------- agregarRango, insertarRango
\* a range argument is a list of values, or the container itself
ValoresDe(s, rango) == IF rango.self THEN ContenidoDe(s) ELSE rango.vals

RECURSIVE AgregarCada(_, _, _, _)
\* for (auto&& val : range) emplace_back(val); the range is read as the loop
\* goes, up to the end() it had when the loop started
AgregarCada(s, rango, i, n) ==
  IF i >= n \/ s.exc # "none" THEN s
  ELSE LET val == IF rango.self THEN Leer(s, s.datos, i).val ELSE rango.vals[i + 1]
       IN AgregarCada(emplace_back(s, val, 0), rango, i + 1, n)

agregarRango(s, rango, falla) ==
  LET count == Len(ValoresDe(s, rango))
      a == aumentarCapacidad(s, s.tamano + count, falla)
  IN IF a.exc # "none" THEN a
     ELSE [AgregarCada(a, rango, 0, count) EXCEPT !.ret = 0]

RECURSIVE AbrirHueco(_, _, _, _)
\* for (i = tamano_; i-- > pos;) { construct(&datos_[i + insert_count], move(datos_[i]));
\*                                 destroy(&datos_[i]); }
AbrirHueco(s, i, pos, insert_count) ==
  IF i <= pos THEN s
  ELSE AbrirHueco(
         alloc_destroy(ConstruirMoviendo(s, s.datos, i - 1 + insert_count, s.datos, i - 1),
                       s.datos, i - 1),
         i - 1, pos, insert_count)

RECURSIVE ConstruirValores(_, _, _, _)
\* idx = pos; for (val : valores) alloc_construct(alloc, &datos_[idx++], val);
ConstruirValores(s, pos, valores, k) ==
  IF k >= Len(valores) THEN s
  ELSE ConstruirValores(alloc_construct(s, s.datos, pos + k, valores[k + 1]),
                        pos, valores, k + 1)

\* both branches do the same steps; the self-insertion branch reads the
\* container into temp_storage before it changes anything
insertarRango(s, pos, rango, falla) ==
  IF pos > s.tamano THEN [s EXCEPT !.exc = "out_of_range"]
  ELSE
    LET valores == ValoresDe(s, rango)
        insert_count == Len(valores)
        a == aumentarCapacidad(s, s.tamano + insert_count, falla)
        h == AbrirHueco(a, a.tamano, pos, insert_count)
        c == ConstruirValores(h, pos, valores, 0)
    IN IF a.exc # "none" THEN a
       ELSE [c EXCEPT !.tamano = c.tamano + insert_count, !.ret = pos]

\* --------------------------------------------------------- insertarVector
RECURSIVE CrecerHasta(_, _, _)
\* while (tamano_ + n > capacidad_) cambiarCapacidad(capacidad_ == 0 ? 1 : capacidad_ * 2);
CrecerHasta(s, n, falla) ==
  IF s.exc # "none" \/ s.tamano + n <= s.capacidad THEN s
  ELSE CrecerHasta(cambiarCapacidad(s, Doble(s), falla), n, falla)

RECURSIVE AbrirHuecoVector(_, _, _, _)
\* for (i = tamano_; i > indice; --i) { destroy(&datos_[i + n - 1]);
\*     construct(&datos_[i + n - 1], move(datos_[i - 1])); destroy(&datos_[i - 1]); }
AbrirHuecoVector(s, i, indice, n) ==
  IF i <= indice THEN s
  ELSE LET x == alloc_destroy(s, s.datos, i + n - 1)
           y == ConstruirMoviendo(x, x.datos, i + n - 1, x.datos, i - 1)
           z == alloc_destroy(y, y.datos, i - 1)
       IN AbrirHuecoVector(z, i - 1, indice, n)

\* Vector copia = v is a snapshot of v's elements
insertarVector(s, indice, v, falla) ==
  IF indice > s.tamano THEN [s EXCEPT !.exc = "out_of_range"]
  ELSE
    LET copia == ValoresDe(s, v)
        g == CrecerHasta(s, Len(copia), falla)
        h == AbrirHuecoVector(g, g.tamano, indice, Len(copia))
        c == ConstruirValores(h, indice, copia, 0)
    IN IF g.exc # "none" THEN [g EXCEPT !.ret = 0]
       ELSE [c EXCEPT !.tamano = c.tamano + Len(copia), !.ret = 0]

\* --------------------------------------------------------- at, front, back
\* the bounds test lets indice == tamano_ through
atMutante(s, indice) ==
  IF indice > s.tamano THEN [s EXCEPT !.exc = "out_of_range"]
  ELSE [s EXCEPT !.ret = Leer(s, s.datos, indice).val]

at(s, indice) ==
  IF indice >= s.tamano THEN [s EXCEPT !.exc = "out_of_range"]
  ELSE [s EXCEPT !.ret = Leer(s, s.datos, indice).val]

frente(s) ==
  IF s.tamano = 0 THEN [s EXCEPT !.exc = "out_of_range"]
  ELSE [s EXCEPT !.ret = Leer(s, s.datos, 0).val]

atras(s) ==
  IF s.tamano = 0 THEN [s EXCEPT !.exc = "out_of_range"]
  ELSE [s EXCEPT !.ret = Leer(s, s.datos, s.tamano - 1).val]

\* ------------------------------------------------------ sorting, duplicates
\* datos_[i] = v: assignment to the object in slot i
Asignar(s, i, v) ==
  IF EnBloque(s, s.datos, i)
    THEN [s EXCEPT !.heap[s.datos].celdas[i + 1].val = v,
                   !.ub = s.ub \/ (tipo # "trivial" /\ ~Leer(s, s.datos, i).viva)]
    ELSE [s EXCEPT !.ub = TRUE]

Valor(s, i) == Leer(s, s.datos, i).val

RECURSIVE BurbujaInterior(_, _, _)
\* for (j = i + 1; j < tamano_; j++)
\*   if (datos_[i] > datos_[j]) { aux = datos_[i]; datos_[i] = datos_[j]; datos_[j] = aux; }
BurbujaInterior(s, i, j) ==
  IF j >= s.tamano THEN s
  ELSE IF Valor(s, i) > Valor(s, j)
    THEN LET aux == Valor(s, i)
         IN BurbujaInterior(Asignar(Asignar(s, i, Valor(s, j)), j, aux), i, j + 1)
    ELSE BurbujaInterior(s, i, j + 1)

RECURSIVE BurbujaExterior(_, _)
\* for (i = 0; i < tamano_; i++)
BurbujaExterior(s, i) ==
  IF i >= s.tamano THEN s
  ELSE BurbujaExterior(BurbujaInterior(s, i, i + 1), i + 1)

\* the inner loop starts one slot late: neighbours are never compared
ordenarBurbujaMutante(s) ==
  LET RECURSIVE Ext(_, _)
      Ext(x, i) == IF i >= x.tamano THEN x
                   ELSE Ext(BurbujaInterior(x, i, i + 2), i + 1)
  IN Ext(s, 0)

ordenarBurbuja(s) == BurbujaExterior(s, 0)

RECURSIVE Hundir(_, _, _)
\* while (j > 0 && val < datos_[j - 1]) { datos_[j] = move(datos_[j - 1]); --j; }
\* datos_[j] = move(val);
Hundir(s, j, val) ==
  IF j > 0 /\ val < Valor(s, j - 1)
    THEN Hundir(Asignar(s, j, Valor(s, j - 1)), j - 1, val)
    ELSE Asignar(s, j, val)

RECURSIVE OrdenarDesde(_, _)
\* std::sort on a range this short is the insertion sort of its final pass
OrdenarDesde(s, i) ==
  IF i >= s.tamano THEN s
  ELSE OrdenarDesde(Hundir(s, i, Valor(s, i)), i + 1)

\* the range is left as it was
ordenarMutante(s) == s

ordenar(s) == OrdenarDesde(s, 1)

RECURSIVE Unicos(_, _, _)
\* std::unique(begin(), end()): each element that differs from the last one
\* kept is moved next to it; ret is the end of the kept elements
Unicos(s, dest, i) ==
  IF i >= s.tamano THEN [s EXCEPT !.ret = dest + 1]
  ELSE IF Valor(s, dest) = Valor(s, i) THEN Unicos(s, dest, i + 1)
  ELSE IF dest + 1 = i THEN Unicos(s, dest + 1, i + 1)
  ELSE Unicos(std_move(Asignar(s, dest + 1, Valor(s, i)), s.datos, i), dest + 1, i + 1)

std_unique(s) == IF s.tamano = 0 THEN [s EXCEPT !.ret = 0] ELSE Unicos(s, 0, 1)

\* ordenar() is left out: only neighbours that are equal are collapsed
eliminarDuplicadosMutante(s) ==
  LET u == std_unique(s)
  IN [erase_rango(u, u.ret, u.tamano) EXCEPT !.ret = 0]

eliminarDuplicados(s) ==
  LET u == std_unique(ordenar(s))
  IN [erase_rango(u, u.ret, u.tamano) EXCEPT !.ret = 0]

\* -------------------------------------------- search, reverse, replace
RECURSIVE PrimeroIgual(_, _, _)
\* for (i = 0; i < tamano_; i++) if (datos_[i] == dato): the first such i,
\* tamano_ when there is none
PrimeroIgual(s, dato, i) ==
  IF i >= s.tamano THEN s.tamano
  ELSE IF Valor(s, i) = dato THEN i
  ELSE PrimeroIgual(s, dato, i + 1)

contiene(s, dato) == PrimeroIgual(s, dato, 0) < s.tamano

buscar(s, dato) ==
  LET i == PrimeroIgual(s, dato, 0)
  IN IF i < s.tamano THEN i ELSE 0 - 1

RECURSIVE ContarDesde(_, _, _, _)
ContarDesde(s, dato, i, contador) ==
  IF i >= s.tamano THEN contador
  ELSE ContarDesde(s, dato, i + 1,
                   IF Valor(s, i) = dato THEN contador + 1 ELSE contador)

contar(s, dato) == ContarDesde(s, dato, 0, 0)

\* a const member function: the object is handed back as it was, with the
\* value returned
Consulta(s, valor) == [s EXCEPT !.ret = valor]

eliminarDato(s, dato) ==
  LET i == PrimeroIgual(s, dato, 0)
  IN IF i < s.tamano THEN eliminar(s, i) ELSE s

RECURSIVE InvertirDesde(_, _)
\* for (i = 0; i < tamano_ / 2; i++)
\*   { aux = datos_[i]; datos_[i] = datos_[tamano_-i-1]; datos_[tamano_-i-1] = aux; }
InvertirDesde(s, i) ==
  IF i >= s.tamano \div 2 THEN s
  ELSE LET aux == Valor(s, i)
           j == s.tamano - i - 1
       IN InvertirDesde(Asignar(Asignar(s, i, Valor(s, j)), j, aux), i + 1)

invertir(s) == InvertirDesde(s, 0)

RECURSIVE ReemplazarDesde(_, _, _, _)
\* for (i = 0; i < tamano_; i++) if (datos_[i] == dato) datos_[i] = nuevo;
ReemplazarDesde(s, dato, nuevo, i) ==
  IF i >= s.tamano THEN s
  ELSE ReemplazarDesde(IF Valor(s, i) = dato THEN Asignar(s, i, nuevo) ELSE s,
                       dato, nuevo, i + 1)

reemplazar(s, dato, nuevo) == ReemplazarDesde(s, dato, nuevo, 0)

\* ------------------------------------------------------ copy, move, swap
\* the elements of the other Vector
ContenidoOtroDe(s) == [k \in 1..s.o.tamano |-> Leer(s, s.o.datos, k - 1).val]
ContenidoOtro == ContenidoOtroDe(Self)

\* the same program seen from the other Vector: *this and otro change places
Voltear(s) ==
  [s EXCEPT !.datos = s.o.datos, !.tamano = s.o.tamano,
            !.capacidad = s.o.capacidad,
            !.o = [viva |-> TRUE, datos |-> s.datos, tamano |-> s.tamano,
                   capacidad |-> s.capacidad]]

\* ~Vector()
destructor(s) ==
  IF s.tamano > s.capacidad THEN [s EXCEPT !.exc = "crash"]
  ELSE LET d == DestruirRango(s, s.datos, 0, s.tamano)
       IN IF s.datos # nullptr THEN deallocate(d, s.datos, s.capacidad) ELSE d

RECURSIVE CopiarDeOtro(_, _, _)
\* for (i = 0; i < tamano_; ++i) alloc_construct(alloc, &datos_[i], otro.datos_[i]);
\* the construction of element number falla (counted from 1) throws
CopiarDeOtro(s, i, falla) ==
  IF i >= s.tamano THEN s
  ELSE IF falla = i + 1 THEN [s EXCEPT !.exc = "ctor", !.ret = i]
  ELSE LET c == alloc_construct(s, s.datos, i, Leer(s, s.o.datos, i).val)
       IN CopiarDeOtro([c EXCEPT !.ub = c.ub \/ (tipo # "trivial"
                                                  /\ ~Leer(s, s.o.datos, i).viva)],
                       i + 1, falla)

\* datos_ = otro.datos_: the new Vector points to the block of its source
Vector_copiaMutante(s, falla) ==
  [s EXCEPT !.datos = s.o.datos, !.tamano = s.o.tamano,
            !.capacidad = s.o.capacidad]

\* Vector(const Vector& otro)
Vector_copia(s, falla) ==
  LET a == allocate(s, s.o.capacidad, "alloc")
      c == [a EXCEPT !.datos = a.ret, !.tamano = s.o.tamano,
                     !.capacidad = s.o.capacidad, !.ret = 0]
  IN IF a.exc # "none" THEN a ELSE CopiarDeOtro(c, 0, falla)

\* Vector(Vector&& otro)
Vector_mueve(s) ==
  [s EXCEPT !.datos = s.o.datos, !.tamano = s.o.tamano,
            !.capacidad = s.o.capacidad,
            !.o.datos = nullptr, !.o.tamano = 0, !.o.capacidad = 0]

\* the three assignments that empty otro are left out
asignar_mueveMutante(s, mismo) ==
  IF mismo THEN s
  ELSE LET d == DestruirRango(s, s.datos, 0, s.tamano)
           f == IF s.datos # nullptr THEN deallocate(d, s.datos, s.capacidad) ELSE d
       IN [f EXCEPT !.datos = s.o.datos, !.tamano = s.o.tamano,
                    !.capacidad = s.o.capacidad]

\* Vector& operator=(Vector&& otro); mismo: otro is *this
asignar_mueve(s, mismo) ==
  IF mismo THEN s
  ELSE LET d == DestruirRango(s, s.datos, 0, s.tamano)
           f == IF s.datos # nullptr THEN deallocate(d, s.datos, s.capacidad) ELSE d
       IN [f EXCEPT !.datos = s.o.datos, !.tamano = s.o.tamano,
                    !.capacidad = s.o.capacidad,
                    !.o.datos = nullptr, !.o.tamano = 0, !.o.capacidad = 0]

\* void intercambiar(Vector& otro), and swap, which calls it
intercambiar(s) ==
  [s EXCEPT !.datos = s.o.datos, !.tamano = s.o.tamano,
            !.capacidad = s.o.capacidad,
            !.o.datos = s.datos, !.o.tamano = s.tamano,
            !.o.capacidad = s.capacidad]

\* Vector& operator=(const Vector& otro); mismo: otro is *this
\* { Vector temp(otro); swap(temp); } and temp's destructor at the brace;
\* when temp's constructor throws, *this is as it was
asignar_copia(s, mismo, falla) ==
  IF mismo THEN s
  ELSE LET temp == Vector_copia(s, falla)
           viejo == destructor([temp EXCEPT !.datos = s.datos, !.tamano = s.tamano,
                                            !.capacidad = s.capacidad])
       IN IF temp.exc # "none"
            THEN [temp EXCEPT !.datos = s.datos, !.tamano = s.tamano,
                              !.capacidad = s.capacidad]
            ELSE [viejo EXCEPT !.datos = temp.datos, !.tamano = temp.tamano,
                               !.capacidad = temp.capacidad]

\* a constructor that throws leaves no object
Construido(r) == IF r.exc # "none" THEN [r EXCEPT !.o = Ninguno] ELSE r

RECURSIVE AgregarDesde(_, _, _)
\* for (i = desde; i < hasta; ++i) nuevo.agregarFinal(datos_[i]);
\* seen from nuevo: the Vector that is read is the other one
AgregarDesde(n, i, hasta) ==
  IF i >= hasta \/ n.exc # "none" THEN n
  ELSE AgregarDesde(agregarFinal(n, Leer(n, n.o.datos, i).val, 0), i + 1, hasta)

\* hasta >= tamano_ in the place of hasta > tamano_
subvectorMutante(s, desde, hasta) ==
  IF desde >= hasta \/ hasta >= s.tamano \/ desde > s.tamano
    THEN [s EXCEPT !.o = [Ninguno EXCEPT !.viva = TRUE]]
    ELSE Voltear(AgregarDesde(Voltear([s EXCEPT !.o = Ninguno]), desde, hasta))

\* Vector subvector(size_t desde, size_t hasta) const, and slice, which calls
\* it; the Vector it returns is the other Vector of the result
subvector(s, desde, hasta) ==
  IF desde >= hasta \/ hasta > s.tamano \/ desde > s.tamano
    THEN [s EXCEPT !.o = [Ninguno EXCEPT !.viva = TRUE]]
    ELSE Voltear(AgregarDesde(Voltear([s EXCEPT !.o = Ninguno]), desde, hasta))

\* --------------------------------------------------------------- cursors
\* A cursor holds ptr, modelled as the number of the slot it points to,
\* counted from datos_: begin() is 0 and rend() is -1.
Pos == (0 - MaxCap - 2)..(2 * MaxCap + 2)
SinCursor == [clase |-> "-", a |-> 0, b |-> 0, op |-> "-", res |-> 0]

\* struct Iterator: operator++, operator--, operator+(n), operator-(n),
\* operator-(o) and the six comparisons, each a function of ptr (and o.ptr)
Iterator ==
  [inc  |-> [p \in Pos |-> p + 1],
   dec  |-> [p \in Pos |-> p - 1],
   mas  |-> [p \in Pos, n \in Pos |-> p + n],
   menos |-> [p \in Pos, n \in Pos |-> p - n],
   dist |-> [p \in Pos, o \in Pos |-> p - o],
   ne |-> [p \in Pos, o \in Pos |-> p # o],
   lt |-> [p \in Pos, o \in Pos |-> p < o],
   eq |-> [p \in Pos, o \in Pos |-> p = o],
   gt |-> [p \in Pos, o \in Pos |-> p > o],
   le |-> [p \in Pos, o \in Pos |-> p <= o],
   ge |-> [p \in Pos, o \in Pos |-> p >= o],
   base |-> [p \in Pos |-> p]]

\* struct ReverseIterator
ReverseIterator ==
  [inc  |-> [p \in Pos |-> p - 1],
   dec  |-> [p \in Pos |-> p + 1],
   mas  |-> [p \in Pos, n \in Pos |-> p - n],
   menos |-> [p \in Pos, n \in Pos |-> p + n],
   dist |-> [p \in Pos, o \in Pos |-> o - p],
   ne |-> [p \in Pos, o \in Pos |-> p # o],
   eq |-> [p \in Pos, o \in Pos |-> p = o],
   lt |-> [p \in Pos, o \in Pos |-> p > o],
   gt |-> [p \in Pos, o \in Pos |-> p < o],
   le |-> [p \in Pos, o \in Pos |-> p >= o],
   ge |-> [p \in Pos, o \in Pos |-> p <= o],
   base |-> [p \in Pos |-> p + 1]]

\* struct ConstIterator
ConstIterator ==
  [inc  |-> [p \in Pos |-> p + 1],
   dec  |-> [p \in Pos |-> p - 1],
   mas  |-> [p \in Pos, n \in Pos |-> p + n],
   menos |-> [p \in Pos, n \in Pos |-> p - n],
   dist |-> [p \in Pos, o \in Pos |-> p - o],
   eq |-> [p \in Pos, o \in Pos |-> p = o],
   ne |-> [p \in Pos, o \in Pos |-> p # o],
   lt |-> [p \in Pos, o \in Pos |-> p < o],
   gt |-> [p \in Pos, o \in Pos |-> p > o],
   le |-> [p \in Pos, o \in Pos |-> p >= o],
   ge |-> [p \in Pos, o \in Pos |-> p <= o],
   base |-> [p \in Pos |-> p]]

\* struct ConstReverseIterator
ConstReverseIterator ==
  [inc  |-> [p \in Pos |-> p - 1],
   dec  |-> [p \in Pos |-> p + 1],
   mas  |-> [p \in Pos, n \in Pos |-> p - n],
   menos |-> [p \in Pos, n \in Pos |-> p + n],
   dist |-> [p \in Pos, o \in Pos |-> p - o],
   ne |-> [p \in Pos, o \in Pos |-> p # o],
   eq |-> [p \in Pos, o \in Pos |-> p = o],
   lt |-> [p \in Pos, o \in Pos |-> p > o],
   gt |-> [p \in Pos, o \in Pos |-> p < o],
   le |-> [p \in Pos, o \in Pos |-> p >= o],
   ge |-> [p \in Pos, o \in Pos |-> p <= o],
   base |-> [p \in Pos |-> p + 1]]

Clases == {"Iterator", "ReverseIterator", "ConstIterator", "ConstReverseIterator"}
Inversas == {"ReverseIterator", "ConstReverseIterator"}
Clase(k) ==
  CASE k = "Iterator" -> Iterator
    [] k = "ReverseIterator" -> ReverseIterator
    [] k = "ConstIterator" -> ConstIterator
    [] k = "ConstReverseIterator" -> ConstReverseIterator

\* begin(), cbegin(): datos_;  rbegin(), crbegin(): datos_ + tamano_ - 1
Principio(s, k) == IF k \in Inversas THEN s.tamano - 1 ELSE 0
\* end(), cend(): datos_ + tamano_;  rend(), crend(): datos_ - 1
Final(s, k) == IF k \in Inversas THEN 0 - 1 ELSE s.tamano

\* ------------------------------------------------------------ comparison
\* For a floating point tipodato the value v stands for 1 + (v - 1) * epsilon,
\* so that two values differ by at most epsilon when they differ by at most
\* Epsilon as numbers of the model.
Epsilon == 1
Abs(x) == IF x < 0 THEN 0 - x ELSE x

\* areEqual(a, b): == for a type that is not floating point, and
\* std::abs(a - b) <= std::numeric_limits<T>::epsilon() for one that is
areEqual(a, b, flotante) == IF flotante THEN Abs(a - b) <= Epsilon ELSE a = b

RECURSIVE IgualesDesde(_, _, _)
\* for (i = 0; i < tamano_; i++) if (!areEqual(datos_[i], otro.datos_[i])) return false;
IgualesDesde(s, i, flotante) ==
  IF i >= s.tamano THEN TRUE
  ELSE IF ~areEqual(Leer(s, s.datos, i).val, Leer(s, s.o.datos, i).val, flotante)
    THEN FALSE
  ELSE IgualesDesde(s, i + 1, flotante)

\* the loop over the elements is left out: only the lengths are compared
operator_eqMutante(s, flotante) == s.tamano = s.o.tamano

\* bool operator==(const Vector& otro) const
operator_eq(s, flotante) ==
  IF s.tamano # s.o.tamano THEN FALSE ELSE IgualesDesde(s, 0, flotante)

RECURSIVE DistintosDesde(_, _)
\* for (i = 0; i < tamano_; i++) if (datos_[i] != otro.datos_[i]) return true;
DistintosDesde(s, i) ==
  IF i >= s.tamano THEN FALSE
  ELSE IF Leer(s, s.datos, i).val # Leer(s, s.o.datos, i).val THEN TRUE
  ELSE DistintosDesde(s, i + 1)

\* bool operator!=(const Vector& otro) const
operator_ne(s) ==
  IF s.tamano # s.o.tamano THEN TRUE ELSE DistintosDesde(s, 0)

RECURSIVE MenorDesde(_, _)
\* the first position where the two sequences differ decides; when one
\* ends first, the shorter one is the smaller
MenorDesde(s, i) ==
  IF i >= s.tamano \/ i >= s.o.tamano THEN s.tamano < s.o.tamano
  ELSE IF Leer(s, s.datos, i).val < Leer(s, s.o.datos, i).val THEN TRUE
  ELSE IF Leer(s, s.o.datos, i).val < Leer(s, s.datos, i).val THEN FALSE
  ELSE MenorDesde(s, i + 1)

\* the ordering of two Vectors: < compares element by element, and <=, >
\* and >= are made of < and ==
operator_lt(s) == MenorDesde(s, 0)
operator_le(s) == operator_lt(s) \/ operator_eq(s, FALSE)
operator_gt(s) == ~operator_lt(s) /\ ~operator_eq(s, FALSE)
operator_ge(s) == operator_gt(s) \/ operator_eq(s, FALSE)

\* a call with *this as its argument
ConsigoMismo(s) ==
  [s EXCEPT !.o = [viva |-> TRUE, datos |-> s.datos, tamano |-> s.tamano,
                   capacidad |-> s.capacidad]]

\* ---------------------------------------------------------------- actions
RECURSIVE EnSecuencia(_)
\* the numbers of S in increasing order
EnSecuencia(S) ==
  IF S = {} THEN <<>>
  ELSE LET m == CHOOSE x \in S : \A y \in S : x <= y
       IN <<m>> \o EnSecuencia(S \ {m})

\* what the caller saw of the last call: which member function, how it
\* ended, and what it did to the storage (cambio: another block; tam0: the
\* length before the call; mod: another element sequence; pista0: the sorted
\* hint before the call)
Registro(op, r) ==
  [op |-> op, exc |-> r.exc, ub |-> r.ub, dc |-> r.dc, dd |-> r.dd,
   cambio |-> (r.exc # "crash" /\ r.datos # datos_), tam0 |-> tamano_,
   mod |-> (r.exc # "crash" /\ ContenidoDe(r) # Contenido),
   pista0 |-> is_sorted_hint]

\* the fields and the heap after the call; a call that ended in a crash
\* leaves no program to observe
\* Block numbers are names: the state is kept with the container's block
\* first.  The bytes a trivially copyable type leaves past the live range
\* are indeterminate to every later call, so they are kept as Indet.
Canonico(r) ==
  LET d == r.datos
      od == IF r.o.viva THEN r.o.datos ELSE nullptr
      \* the blocks a Vector points to, that of *this first, then the others
      nombrados == (IF d # nullptr THEN <<d>> ELSE <<>>)
                   \o (IF od # nullptr /\ od # d THEN <<od>> ELSE <<>>)
      orden == nombrados
               \o EnSecuencia(Blocks \ {nombrados[k] : k \in 1..Len(nombrados)})
      nombre(b) == IF b = nullptr THEN nullptr
                   ELSE CHOOSE k \in Blocks : orden[k] = b
      \* a block no pointer refers to any more: only which of its cells
      \* still hold an element can matter
      perdido(bl) == [bl EXCEPT !.celdas =
                        [k \in 1..bl.n |-> [viva |-> bl.celdas[k].viva, val |-> Indet]]]
      limpio(bl, tam) == [bl EXCEPT !.celdas =
                            [k \in 1..bl.n |->
                               IF k > tam THEN CeldaVacia ELSE bl.celdas[k]]]
  IN [r EXCEPT !.datos = nombre(d),
               !.o.datos = nombre(od),
               !.heap = [k \in Blocks |->
                           LET bl == r.heap[orden[k]]
                           IN IF k > Len(nombrados) THEN perdido(bl)
                              ELSE IF tipo # "trivial" THEN bl
                              ELSE IF orden[k] = d THEN limpio(bl, r.tamano)
                              ELSE limpio(bl, r.o.tamano)]]

\* The sorted hint after a call of op that took Self to r.  A call that
\* fails leaves it; sorting and emptying set it; push_back and a growing
\* resize keep it when what they append is not less than the last element;
\* a resize to at most one element sets it; a change of capacity leaves it;
\* every other call, mutable element access included, clears it.
PistaTras(op, r) ==
  LET h == is_sorted_hint
      noMenor == tamano_ = 0 \/ r.tamano = 0
                 \/ ~(Leer(r, r.datos, r.tamano - 1).val < Leer(Self, datos_, tamano_ - 1).val)
  IN IF r.exc # "none" THEN h
     ELSE IF op \in {"sort", "bubbleSort", "clear", "vaciar"} THEN TRUE
     ELSE IF op = "push_back" THEN h /\ noMenor
     ELSE IF op = "resize"
       THEN IF r.tamano <= 1 THEN TRUE
            ELSE IF r.tamano > tamano_ THEN h /\ noMenor
            ELSE h
     ELSE IF op \in {"reserve", "grow_to_fit", "shrink_to_fit"} THEN h
     ELSE FALSE

Efecto(op, r) ==
  /\ datos_' = IF r.exc = "crash" THEN datos_ ELSE Canonico(r).datos
  /\ tamano_' = IF r.exc = "crash" THEN tamano_ ELSE r.tamano
  /\ capacidad_' = IF r.exc = "crash" THEN capacidad_ ELSE r.capacidad
  /\ heap' = IF r.exc = "crash" THEN heap ELSE Canonico(r).heap
  /\ otro' = IF r.exc = "crash" THEN otro ELSE Canonico(r).o
  /\ last' = Registro(op, r)
  /\ tipo' = tipo
  /\ cursor' = cursor
  /\ nPush' = IF nPush >= 0 /\ op = "push_back" /\ r.exc = "none" /\ ~r.ub
                THEN nPush + 1 ELSE 0 - 1

\* a call of a program that keeps no sorted hint
Aplicar(op, r) == Efecto(op, r) /\ is_sorted_hint' = is_sorted_hint
\* a call of a program that keeps the sorted hint
AplicarPista(op, r) == Efecto(op, r) /\ is_sorted_hint' = PistaTras(op, r)

\* which construction of a reallocation throws (0: none); a trivially
\* copyable type has no constructor that throws
Fallas(realoja) == IF realoja /\ tipo # "trivial" THEN 0..tamano_ ELSE {0}
\* A run is followed up to the first call that leaves the container in a
\* state its contract excludes: a crash or any other undefined behaviour, a
\* construction over a live element or a destruction of a dead one, a length
\* above the capacity (the destructor's assert), an indeterminate or
\* moved-from value in the live range, for a class type a destroyed object
\* below the length or a live one above it, a block no pointer refers to.
SanoDe(c) ==
  /\ c.tamano <= c.capacidad
  /\ \A i \in 0..(c.tamano - 1) : Leer(Self, c.datos, i).val \in Values
  /\ tipo # "trivial" =>
       \A i \in 0..(c.capacidad - 1) : Leer(Self, c.datos, i).viva <=> i < c.tamano
Sano ==
  /\ SanoDe(Self)
  /\ otro.viva => SanoDe(otro)
  /\ \A b \in Blocks :
       b # datos_ /\ ~(otro.viva /\ b = otro.datos) => heap[b].por = "libre"
Vivo == /\ last.exc # "crash" /\ ~last.ub /\ ~last.dc /\ ~last.dd
        /\ Sano
\* the caller has taken the result of the last call and makes the next one
Reposo == [op |-> "-", exc |-> "none", ub |-> FALSE, dc |-> FALSE, dd |-> FALSE,
           cambio |-> FALSE, tam0 |-> 0, mod |-> FALSE, pista0 |-> FALSE]
Listo == last = Reposo
Cabe(n) == n <= MaxCap

\* Vector(), Vector(size_t, const tipodato&), Vector(initializer_list)
RECURSIVE ConstruirLista(_, _, _)
ConstruirLista(s, lista, i) ==
  IF i >= Len(lista) THEN s
  ELSE ConstruirLista(alloc_construct(s, s.datos, i, lista[i + 1]), lista, i + 1)

Nuevo == [datos |-> nullptr, tamano |-> 0, capacidad |-> 0,
          heap |-> [b \in Blocks |-> BloqueLibre], exc |-> "none", ret |-> 0,
          ub |-> FALSE, dc |-> FALSE, dd |-> FALSE, o |-> Ninguno]

VectorLista(lista) ==
  LET a == allocate(Nuevo, Len(lista), "alloc")
      c == [a EXCEPT !.datos = a.ret, !.tamano = Len(lista), !.capacidad = Len(lista)]
  IN [ConstruirLista(c, lista, 0) EXCEPT !.ret = 0]

Listas == UNION {[1..n -> Values] : n \in 0..MaxIns}
Repetir(n, v) == [k \in 1..n |-> v]

Init ==
  /\ tipo \in TiposDato
  /\ \E r \in {Nuevo} \cup {VectorLista(l) : l \in Listas}
              \cup {VectorLista(Repetir(n, v)) : n \in 0..MaxIns, v \in Values} :
       /\ datos_ = r.datos
       /\ tamano_ = r.tamano
       /\ capacidad_ = r.capacidad
       /\ heap = r.heap
       /\ last = [op |-> "Vector", exc |-> "none", ub |-> FALSE, dc |-> FALSE,
                  dd |-> FALSE, cambio |-> FALSE, tam0 |-> 0, mod |-> FALSE,
                  pista0 |-> FALSE]
       /\ nPush = IF r = Nuevo THEN 0 ELSE 0 - 1
       /\ otro = Ninguno
       /\ is_sorted_hint = FALSE
       /\ cursor = SinCursor

push_back ==
  \E x \in Values : \E f \in Fallas(tamano_ = capacidad_) :
    /\ Listo
    /\ tamano_ = capacidad_ => Cabe(Doble(Self))
    /\ Aplicar("push_back", agregarFinal(Self, x, f))

Indices == 0..(tamano_ + 1)
\* cursor positions: one before the block to one past its end
Cursores == (0 - 1)..(capacidad_ + 1)
Crece == tamano_ = capacidad_ => Cabe(Doble(Self))

emplace_back_ ==
  \E x \in Values : \E f \in Fallas(tamano_ = capacidad_) :
    /\ Listo /\ Crece
    /\ Aplicar("emplace_back", emplace_back(Self, x, f))

emplace_ ==
  \E i \in Indices, x \in Values : \E f \in Fallas(tamano_ = capacidad_ /\ i <= tamano_) :
    /\ Listo /\ Crece
    /\ Aplicar("emplace", emplace(Self, i, x, f))

insert ==
  \E i \in Indices, x \in Values : \E f \in Fallas(tamano_ = capacidad_ /\ i <= tamano_) :
    /\ Listo /\ Crece
    /\ Aplicar("insert", insertar(Self, i, x, f))

erase ==
  \E i \in Indices :
    /\ Listo
    /\ Aplicar("erase", eliminar(Self, i))

erase_iterator ==
  \E it \in Cursores :
    /\ Listo
    /\ Aplicar("erase_it", erase_it(Self, it))

erase_range ==
  \E first \in Cursores, last_ \in Cursores :
    /\ Listo
    /\ Aplicar("erase_rango", erase_rango(Self, first, last_))

pop_back ==
  /\ Listo
  /\ Aplicar("pop_back", eliminarFinal(Self))

Tamanos == 0..MaxCap
Rangos == {[self |-> FALSE, vals |-> l] : l \in Listas} \cup {[self |-> TRUE, vals |-> <<>>]}
Rompes(reduce) == IF reduce /\ tipo # "trivial" THEN BOOLEAN ELSE {FALSE}
\* the capacity insertarVector's loop of doublings stops at
RECURSIVE DobleHasta(_, _)
DobleHasta(c, n) == IF n <= c THEN c ELSE DobleHasta(IF c = 0 THEN 1 ELSE c * 2, n)

resize ==
  \E n \in Tamanos, x \in Values : \E f \in Fallas(n > capacidad_) : \E rompe \in Rompes(n < tamano_ /\ n < capacidad_ \div 2) :
    /\ Listo
    /\ Aplicar("resize", redimensionar(Self, n, x, f, rompe))

reserve ==
  \E n \in Tamanos : \E f \in Fallas(n > capacidad_) :
    /\ Listo
    /\ Aplicar("reserve", reservar(Self, n, f))

grow_to_fit ==
  \E n \in Tamanos : \E f \in Fallas(n > capacidad_) :
    /\ Listo
    /\ n > capacidad_ => Cabe(Max(n, capacidad_ * 2))
    /\ Aplicar("grow_to_fit", aumentarCapacidad(Self, n, f))

shrink_to_fit ==
  \E rompe \in Rompes(capacidad_ > tamano_) :
    /\ Listo
    /\ Aplicar("shrink_to_fit", reducirCapacidad(Self, rompe))

clear_ ==
  /\ Listo
  /\ Aplicar("clear", clear(Self))

vaciar_ ==
  /\ Listo
  /\ Aplicar("vaciar", vaciar(Self))

append_range ==
  \E r \in Rangos : \E f \in Fallas(tamano_ + Len(ValoresDe(Self, r)) > capacidad_) :
    LET n == tamano_ + Len(ValoresDe(Self, r))
    IN /\ Listo
       /\ n > capacidad_ => Cabe(Max(n, capacidad_ * 2))
       /\ Aplicar("append_range", agregarRango(Self, r, f))

insert_range ==
  \E i \in Indices, r \in Rangos : \E f \in Fallas(i <= tamano_ /\ tamano_ + Len(ValoresDe(Self, r)) > capacidad_) :
    LET n == tamano_ + Len(ValoresDe(Self, r))
    IN /\ Listo
       /\ n > capacidad_ => Cabe(Max(n, capacidad_ * 2))
       /\ Aplicar("insert_range", insertarRango(Self, i, r, f))

insert_vector ==
  \E i \in Indices, v \in Rangos : \E f \in Fallas(i <= tamano_ /\ tamano_ + Len(ValoresDe(Self, v)) > capacidad_) :
    /\ Listo
    /\ Cabe(DobleHasta(capacidad_, tamano_ + Len(ValoresDe(Self, v))))
    /\ Aplicar("insert_vector", insertarVector(Self, i, v, f))

at_ ==
  \E i \in Indices :
    /\ Listo
    /\ Aplicar("at", at(Self, i))

front ==
  /\ Listo
  /\ Aplicar("front", frente(Self))

back ==
  /\ Listo
  /\ Aplicar("back", atras(Self))

\* ------------------------------- actions of a Vector with the sorted hint
\* v[i] = x
index_write ==
  \E i \in 0..tamano_, x \in Values :
    /\ Listo
    /\ AplicarPista("operator[]", Asignar(Self, i, x))

sort ==
  /\ Listo
  /\ AplicarPista("sort", ordenar(Self))

bubbleSort ==
  /\ Listo
  /\ AplicarPista("bubbleSort", ordenarBurbuja(Self))

removeDuplicates ==
  /\ Listo
  /\ AplicarPista("removeDuplicates", eliminarDuplicados(Self))

push_back_pista ==
  \E x \in Values : \E f \in Fallas(tamano_ = capacidad_) :
    /\ Listo /\ Crece
    /\ AplicarPista("push_back", agregarFinal(Self, x, f))

insert_pista ==
  \E i \in Indices, x \in Values : \E f \in Fallas(tamano_ = capacidad_ /\ i <= tamano_) :
    /\ Listo /\ Crece
    /\ AplicarPista("insert", insertar(Self, i, x, f))

erase_pista ==
  \E i \in Indices :
    /\ Listo
    /\ AplicarPista("erase", eliminar(Self, i))

resize_pista ==
  \E n \in Tamanos, x \in Values : \E f \in Fallas(n > capacidad_) : \E rompe \in Rompes(n < tamano_ /\ n < capacidad_ \div 2) :
    /\ Listo
    /\ AplicarPista("resize", redimensionar(Self, n, x, f, rompe))

clear_pista ==
  /\ Listo
  /\ \/ AplicarPista("clear", clear(Self))
     \/ AplicarPista("vaciar", vaciar(Self))

at_pista ==
  \E i \in Indices :
    /\ Listo
    /\ AplicarPista("at", at(Self, i))

\* v.reverse();
reverse ==
  /\ Listo
  /\ AplicarPista("reverse", invertir(Self))

\* v.reemplazar(x, y);
replace ==
  \E x \in Values, y \in Values :
    /\ Listo
    /\ AplicarPista("reemplazar", reemplazar(Self, x, y))

\* v.eliminarDato(x);
remove_value ==
  \E x \in Values :
    /\ Listo
    /\ AplicarPista("eliminarDato", eliminarDato(Self, x))

\* v.contiene(x);  v.buscar(x);  v.contar(x);  a const call cannot touch the hint
query ==
  \E x \in Values :
    /\ Listo
    /\ \/ Aplicar("contiene", Consulta(Self, IF contiene(Self, x) THEN 1 ELSE 0))
       \/ Aplicar("buscar", Consulta(Self, buscar(Self, x)))
       \/ Aplicar("contar", Consulta(Self, contar(Self, x)))

\* ----------------------------------------- actions on two Vectors a and b
\* a is *this of the model and b is otro
FallasCopia(n) == IF tipo # "trivial" THEN 0..n ELSE {0}

\* Vector b(a);
copy_construct ==
  \E f \in FallasCopia(tamano_) :
    /\ Listo /\ ~otro.viva
    /\ Aplicar("copy", Construido(Voltear(Vector_copia(Voltear(Self), f))))

\* Vector b(std::move(a));
move_construct ==
  /\ Listo /\ ~otro.viva
  /\ Aplicar("move", Voltear(Vector_mueve(Voltear(Self))))

\* a = b;  b = a;  a = a;
copy_assign ==
  /\ Listo /\ otro.viva
  /\ \/ \E f \in FallasCopia(otro.tamano) :
          Aplicar("copy_assign", asignar_copia(Self, FALSE, f))
     \/ \E f \in FallasCopia(tamano_) :
          Aplicar("otro.copy_assign", Voltear(asignar_copia(Voltear(Self), FALSE, f)))
     \/ Aplicar("self.copy_assign", asignar_copia(Self, TRUE, 0))

\* a = std::move(b);  b = std::move(a);  a = std::move(a);
move_assign ==
  /\ Listo /\ otro.viva
  /\ \/ Aplicar("move_assign", asignar_mueve(Self, FALSE))
     \/ Aplicar("otro.move_assign", Voltear(asignar_mueve(Voltear(Self), FALSE)))
     \/ Aplicar("self.move_assign", asignar_mueve(Self, TRUE))

\* a.swap(b);
swap ==
  /\ Listo /\ otro.viva
  /\ Aplicar("swap", intercambiar(Self))

\* b goes out of scope
destroy ==
  /\ Listo /\ otro.viva
  /\ Aplicar("~Vector", [Voltear(destructor(Voltear(Self))) EXCEPT !.o = Ninguno])

\* Vector b = a.slice(from, to);
slice ==
  \E from \in Indices, to \in Indices :
    /\ Listo /\ ~otro.viva
    /\ Aplicar("slice", subvector(Self, from, to))

\* the result of a member function that returns bool
Booleano(s, b) == [s EXCEPT !.ret = IF b THEN 1 ELSE 0]

\* a == b;  a != b;  a == a;
equals ==
  /\ Listo /\ otro.viva
  /\ \/ \E flotante \in BOOLEAN :
          /\ flotante => tipo = "trivial"
          /\ Aplicar("operator==", Booleano(Self, operator_eq(Self, flotante)))
     \/ Aplicar("operator!=", Booleano(Self, operator_ne(Self)))
     \/ Aplicar("self.operator==", Booleano(Self, operator_eq(ConsigoMismo(Self), FALSE)))

\* a < b;  a <= b;  a > b;  a >= b;
less ==
  /\ Listo /\ otro.viva
  /\ \/ Aplicar("operator<", Booleano(Self, operator_lt(Self)))
     \/ Aplicar("operator<=", Booleano(Self, operator_le(Self)))
     \/ Aplicar("operator>", Booleano(Self, operator_gt(Self)))
     \/ Aplicar("operator>=", Booleano(Self, operator_ge(Self)))

\* a.push_back(x);  b.push_back(x);
push_back_dos ==
  \E x \in Values :
    /\ Listo
    /\ \/ /\ tamano_ < MaxDos
          /\ \E f \in Fallas(tamano_ = capacidad_) :
               Aplicar("push_back", agregarFinal(Self, x, f))
       \/ /\ otro.viva /\ otro.tamano < MaxDos
          /\ \E f \in FallasCopia(IF otro.tamano = otro.capacidad THEN otro.tamano ELSE 0) :
               Aplicar("otro.push_back", Voltear(agregarFinal(Voltear(Self), x, f)))

\* a.pop_back();  b.pop_back();
pop_back_dos ==
  /\ Listo
  /\ \/ Aplicar("pop_back", eliminarFinal(Self))
     \/ /\ otro.viva
        /\ Aplicar("otro.pop_back", Voltear(eliminarFinal(Voltear(Self))))

\* a[i] = x;  b[i] = x;
index_write_dos ==
  \E x \in Values :
    /\ Listo
    /\ \/ \E i \in 0..(tamano_ - 1) : Aplicar("operator[]", Asignar(Self, i, x))
       \/ /\ otro.viva
          /\ \E i \in 0..(otro.tamano - 1) :
               Aplicar("otro.operator[]", Voltear(Asignar(Voltear(Self), i, x)))

\* ------------------------------------------------------ actions on cursors
\* the slots a cursor of the Vector may point to: rend() to end()
Alcance == (0 - 1)..tamano_
Relaciones == {"ne", "eq", "lt", "gt", "le", "ge"}

\* a = v.begin(), b = v.end(), and the like for the other three classes
cursor_begin_end ==
  \E k \in Clases :
    /\ Listo
    /\ cursor' = [clase |-> k, a |-> Principio(Self, k), b |-> Final(Self, k),
                  op |-> "begin", res |-> 0]
    /\ UNCHANGED <<tipo, datos_, tamano_, capacidad_, heap, last, nPush, otro,
                   is_sorted_hint>>

\* ++a;  --a;  ++b;  --b;
cursor_step ==
  \E f \in {"inc", "dec"} :
    /\ Listo /\ cursor.clase \in Clases
    /\ \/ /\ Clase(cursor.clase)[f][cursor.a] \in Alcance
          /\ cursor' = [cursor EXCEPT !.a = Clase(cursor.clase)[f][cursor.a],
                                      !.op = f, !.res = 0]
       \/ /\ Clase(cursor.clase)[f][cursor.b] \in Alcance
          /\ cursor' = [cursor EXCEPT !.b = Clase(cursor.clase)[f][cursor.b],
                                      !.op = f, !.res = 0]
    /\ UNCHANGED <<tipo, datos_, tamano_, capacidad_, heap, last, nPush, otro,
                   is_sorted_hint>>

\* a = b + n;  a = b - n;
cursor_plus ==
  \E f \in {"mas", "menos"}, n \in 0..MaxCap :
    /\ Listo /\ cursor.clase \in Clases
    /\ Clase(cursor.clase)[f][cursor.b, n] \in Alcance
    /\ cursor' = [cursor EXCEPT !.a = Clase(cursor.clase)[f][cursor.b, n],
                                !.op = f, !.res = n]
    /\ UNCHANGED <<tipo, datos_, tamano_, capacidad_, heap, last, nPush, otro,
                   is_sorted_hint>>

\* a - b
cursor_distance ==
  /\ Listo /\ cursor.clase \in Clases
  /\ cursor' = [cursor EXCEPT !.op = "dist",
                              !.res = Clase(cursor.clase).dist[cursor.a, cursor.b]]
  /\ UNCHANGED <<tipo, datos_, tamano_, capacidad_, heap, last, nPush, otro,
                 is_sorted_hint>>

\* a != b;  a == b;  a < b;  a > b;  a <= b;  a >= b;
cursor_compare ==
  \E f \in Relaciones :
    /\ Listo /\ cursor.clase \in Clases
    /\ cursor' = [cursor EXCEPT !.op = f,
                                !.res = IF Clase(cursor.clase)[f][cursor.a, cursor.b]
                                          THEN 1 ELSE 0]
    /\ UNCHANGED <<tipo, datos_, tamano_, capacidad_, heap, last, nPush, otro,
                   is_sorted_hint>>

Retorno ==
  /\ Vivo /\ ~Listo
  /\ last' = Reposo
  /\ UNCHANGED <<tipo, datos_, tamano_, capacidad_, heap, nPush, otro,
                 is_sorted_hint, cursor>>

Next ==
  \/ push_back
  \/ emplace_back_
  \/ emplace_
  \/ insert
  \/ erase
  \/ erase_iterator
  \/ erase_range
  \/ pop_back
  \/ resize
  \/ reserve
  \/ grow_to_fit
  \/ shrink_to_fit
  \/ clear_
  \/ vaciar_
  \/ append_range
  \/ insert_range
  \/ insert_vector
  \/ at_
  \/ front
  \/ back
  \/ Retorno

\* ================================================================ claims
Ok(r) == r.exc = "none"
\* the container as the caller left it: same fields, same heap
Intacto(r) ==
  /\ r.datos = datos_ /\ r.tamano = tamano_ /\ r.capacidad = capacidad_
  /\ r.heap = heap
\* s[0..i) followed by x followed by s[i..)
InsertarEn(seq, i, x) == SubSeq(seq, 1, i) \o <<x>> \o SubSeq(seq, i + 1, Len(seq))
\* s without the positions [a, b)
QuitarRango(seq, a, b) == SubSeq(seq, 1, a) \o SubSeq(seq, b + 1, Len(seq))
RECURSIVE Potencia2(_, _)
\* the first of 0, 1, 2, 4, 8, ... that is at least n
Potencia2(c, n) == IF n <= c THEN c ELSE Potencia2(IF c = 0 THEN 1 ELSE 2 * c, n)
\* a state between two calls
EntreLlamadas == Listo /\ Vivo

\* C1: in every reachable state length <= capacity.
C1_LongitudNoExcedeCapacidad == tamano_ <= capacidad_

\* C2: for a class element type, in every reachable state exactly the slots
\* below length hold a constructed element, and no call has constructed into
\* a live slot or destroyed a slot that was not live.
C2_RanurasVivasBajoLongitud ==
  tipo # "trivial" =>
    /\ \A i \in 0..(capacidad_ - 1) : Leer(Self, datos_, i).viva <=> i < tamano_
    /\ ~last.dc /\ ~last.dd

\* C3: in every reachable state the storage pointer is null iff capacity is 0.
C3_NuloSiiCapacidadCero == (datos_ = nullptr) <=> (capacidad_ = 0)

\* C4: after N push_back calls on a default-constructed container length is
\* N, capacity is at least N and is the first of 0, 1, 2, 4, ... that holds N
\* elements; a push_back changes capacity only when length == capacity, to 1
\* from 0 and to twice its value otherwise.
C4_PushBackDuplica ==
  /\ nPush >= 0 =>
       /\ tamano_ = nPush /\ capacidad_ >= nPush
       /\ capacidad_ = Potencia2(0, nPush)
  /\ EntreLlamadas =>
       \A x \in Values :
         LET r == agregarFinal(Self, x, 0)
         IN /\ Ok(r) /\ r.tamano = tamano_ + 1
            /\ r.capacidad = IF tamano_ # capacidad_ THEN capacidad_
                             ELSE IF capacidad_ = 0 THEN 1 ELSE 2 * capacidad_
C4_Testigo ==
  /\ last.op = "push_back" /\ last.cambio
  /\ nPush = 3 /\ tamano_ = 3 /\ capacidad_ = 4

\* C5: when a construction into the new block throws during a reallocation
\* (the element type is a class whose move constructor can throw), on every
\* growth path, the new block is released and the container has the length,
\* capacity, block and element values it had before the call.
RollbackCompleto(r) ==
  r.exc = "ctor" => Intacto(r)
C5_ReasignacionFallidaNoCambiaNada ==
  (EntreLlamadas /\ tipo # "trivial") =>
    \A f \in 1..tamano_, n \in (capacidad_ + 1)..(MaxCap + 1), x \in Values :
      /\ RollbackCompleto(reservar(Self, n, f))
      /\ RollbackCompleto(redimensionar(Self, n, x, f, FALSE))
      /\ RollbackCompleto(aumentarCapacidad(Self, n, f))
      /\ RollbackCompleto(agregarFinal(Self, x, f))
      /\ RollbackCompleto(insertar(Self, 0, x, f))
      /\ RollbackCompleto(emplace(Self, 0, x, f))
      /\ RollbackCompleto(agregarRango(Self, [self |-> FALSE, vals |-> <<x>>], f))
      /\ RollbackCompleto(insertarRango(Self, 0, [self |-> FALSE, vals |-> <<x>>], f))

\* C6: a bounds violation is reported as out_of_range and leaves the
\* container as it was: at(i) and erase(i) with i >= length, insert, emplace,
\* insert_vector and insert_range with i > length, pop_back, front and back
\* on an empty container; with an index in range none of them reports it.
FueraDeRango(r, fuera) ==
  /\ fuera => r.exc = "out_of_range" /\ Intacto(r)
  /\ ~fuera => r.exc # "out_of_range"
C6_ErroresDeLimites ==
  EntreLlamadas =>
    /\ \A i \in 0..(tamano_ + 2) :
         /\ FueraDeRango(at(Self, i), i >= tamano_)
         /\ FueraDeRango(eliminar(Self, i), i >= tamano_)
         /\ \A x \in Values, f \in 0..tamano_ :
              /\ FueraDeRango(insertar(Self, i, x, f), i > tamano_)
              /\ FueraDeRango(emplace(Self, i, x, f), i > tamano_)
         /\ \A v \in Rangos :
              /\ FueraDeRango(insertarVector(Self, i, v, 0), i > tamano_)
              /\ FueraDeRango(insertarRango(Self, i, v, 0), i > tamano_)
    /\ FueraDeRango(eliminarFinal(Self), tamano_ = 0)
    /\ FueraDeRango(frente(Self), tamano_ = 0)
    /\ FueraDeRango(atras(Self), tamano_ = 0)
C6_Testigo ==
  /\ last.op = "at" /\ last.exc = "out_of_range" /\ tamano_ = 2 /\ capacidad_ = 2

\* C7: for a container holding s and any i <= length, insert(i, x) and
\* emplace(i, x) yield s[0..i), x, s[i..length) and length + 1, with or
\* without a reallocation.
Insertado(r, i, x) ==
  /\ Ok(r)
  /\ r.tamano = tamano_ + 1
  /\ ContenidoDe(r) = InsertarEn(Contenido, i, x)
C7_InsertarColocaElValor ==
  EntreLlamadas =>
    \A i \in 0..tamano_, x \in Values :
      /\ Insertado(insertar(Self, i, x, 0), i, x)
      /\ Insertado(emplace(Self, i, x, 0), i, x)
C7_Testigo ==
  /\ last.op = "insert" /\ last.exc = "none" /\ last.cambio
  /\ last.tam0 = 2 /\ Contenido = <<2, 1, 2>>

\* C8: for every index i <= length, insert(i, x) followed by erase(i) gives
\* back the sequence the container held: same length, same elements, same order.
C8_InsertarYEliminarRestaura ==
  EntreLlamadas =>
    \A i \in 0..tamano_, x \in Values :
      LET a == insertar(Self, i, x, 0)
          e == eliminar(a, i)
      IN /\ Ok(a) /\ Ok(e)
         /\ e.tamano = tamano_
         /\ ContenidoDe(e) = Contenido
C8_Testigo ==
  /\ last.op = "erase" /\ last.exc = "none"
  /\ last.tam0 = 3 /\ Contenido = <<1, 2>>

\* C9: erase(it) with it before begin or at or after end, and erase(first,
\* last) with first or last before begin or after end or first after last,
\* fail with out_of_range and leave the container unchanged.
Rechazado(r) == r.exc = "out_of_range" /\ Intacto(r)
C9_CursoresFueraDeRangoRechazados ==
  EntreLlamadas =>
    /\ \A it \in Cursores :
         (it < 0 \/ it >= tamano_) => Rechazado(erase_it(Self, it))
    /\ \A first \in Cursores, last_ \in Cursores :
         (first < 0 \/ first > tamano_ \/ last_ < 0 \/ last_ > tamano_ \/ first > last_)
           => Rechazado(erase_rango(Self, first, last_))

\* C10: with begin <= first <= last <= end, erase(first, last) removes the
\* elements at [first, last), keeps the others in order, lowers length by
\* last - first, leaves capacity and the block alone and returns the cursor
\* at first, the end cursor when the range reached the tail; erase(it) does
\* what erase(it, it + 1) does.
C10_EraseQuitaElRango ==
  EntreLlamadas =>
    /\ \A first \in 0..tamano_ : \A last_ \in first..tamano_ :
         LET r == erase_rango(Self, first, last_)
         IN /\ Ok(r)
            /\ ContenidoDe(r) = QuitarRango(Contenido, first, last_)
            /\ r.tamano = tamano_ - (last_ - first)
            /\ r.capacidad = capacidad_ /\ r.datos = datos_
            /\ r.ret = first
            /\ last_ = tamano_ => r.ret = r.tamano
    /\ \A it \in 0..(tamano_ - 1) :
         LET a == erase_it(Self, it)
             b == erase_rango(Self, it, it + 1)
         IN /\ Ok(a)
            /\ ContenidoDe(a) = ContenidoDe(b)
            /\ a.tamano = b.tamano /\ a.capacidad = b.capacidad
            /\ a.datos = b.datos /\ a.ret = b.ret
C10_Testigo ==
  /\ last.op = "erase_rango" /\ last.exc = "none" /\ ~last.ub
  /\ last.tam0 = 4 /\ Contenido = <<1, 2>> /\ capacidad_ = 4

\* C11: from any state clear() leaves length 0, capacity 0 and no storage
\* (the block is released); vaciar() leaves length 0 with the capacity and
\* the block it had; after either, push_back(x) succeeds and the container
\* holds <<x>>.
Reutilizable(r) ==
  \A x \in Values :
    LET p == agregarFinal(r, x, 0)
    IN Ok(p) /\ ~p.ub /\ p.tamano = 1 /\ ContenidoDe(p) = <<x>>
C11_ClearLiberaVaciarConserva ==
  EntreLlamadas =>
    LET c == clear(Self)
        v == vaciar(Self)
    IN /\ Ok(c) /\ ~c.ub /\ c.tamano = 0 /\ c.capacidad = 0 /\ c.datos = nullptr
       /\ \A b \in Blocks : c.heap[b].por = "libre"
       /\ Ok(v) /\ ~v.ub /\ v.tamano = 0
       /\ v.capacidad = capacidad_ /\ v.datos = datos_
       /\ Reutilizable(c) /\ Reutilizable(v)
C11_Testigo ==
  /\ last.op = "clear" /\ last.exc = "none" /\ last.tam0 = 2
  /\ tamano_ = 0 /\ capacidad_ = 0 /\ datos_ = nullptr

\* C12: from any state shrink_to_fit() leaves capacity == length with the
\* same elements, and a second shrink_to_fit() right after it changes
\* nothing: not the block, the capacity, the length or the elements.
C12_ShrinkAjustaYEsIdempotente ==
  EntreLlamadas =>
    \A rompe \in Rompes(capacidad_ > tamano_) :
      LET r == reducirCapacidad(Self, rompe)
          r2 == reducirCapacidad(r, FALSE)
      IN /\ Ok(r)
         /\ r.tamano = tamano_ /\ r.capacidad = r.tamano
         /\ ContenidoDe(r) = Contenido
         /\ Ok(r2) /\ r2.datos = r.datos /\ r2.heap = r.heap
         /\ r2.tamano = r.tamano /\ r2.capacidad = r.capacidad

\* the capacity a request for min slots leaves, under the rule regla
Asegurado(r, min, regla) ==
  /\ Ok(r)
  /\ r.capacidad = IF min <= capacidad_ THEN capacidad_ ELSE regla
\* the elements the container held are still its first elements
MismoPrefijo(r) ==
  /\ r.tamano >= tamano_
  /\ SubSeq(ContenidoDe(r), 1, tamano_) = Contenido
SinCambioDeElementos(r) == r.tamano = tamano_ /\ ContenidoDe(r) = Contenido
\* ranges of every length up to MaxIns, and the container itself
RangosPorLargo ==
  {[self |-> FALSE, vals |-> Repetir(k, 1)] : k \in 0..MaxIns}
    \cup {[self |-> TRUE, vals |-> <<>>]}
\* what every growing operation but reserve and resize does
CreceAlDoble ==
  /\ \A n \in 0..(MaxCap + 1) :
       LET g == aumentarCapacidad(Self, n, 0)
       IN /\ Asegurado(g, n, Max(n, 2 * capacidad_))
          /\ SinCambioDeElementos(g)
          /\ n <= capacidad_ => Intacto(g)
  /\ \A rg \in RangosPorLargo :
       LET min == tamano_ + Len(ValoresDe(Self, rg))
       IN /\ Asegurado(agregarRango(Self, rg, 0), min, Max(min, 2 * capacidad_))
          /\ MismoPrefijo(agregarRango(Self, rg, 0))
          /\ \A i \in 0..tamano_ :
               Asegurado(insertarRango(Self, i, rg, 0), min, Max(min, 2 * capacidad_))
  /\ \A x \in Values :
       LET min == tamano_ + 1
       IN /\ Asegurado(agregarFinal(Self, x, 0), min, Max(min, 2 * capacidad_))
          /\ Asegurado(emplace_back(Self, x, 0), min, Max(min, 2 * capacidad_))
          /\ \A i \in 0..tamano_ :
               /\ Asegurado(insertar(Self, i, x, 0), min, Max(min, 2 * capacidad_))
               /\ Asegurado(emplace(Self, i, x, 0), min, Max(min, 2 * capacidad_))
\* reserve and the growth of resize under the rule regla
ReservaSegun(regla(_)) ==
  \A n \in 0..(MaxCap + 1) :
    LET v == reservar(Self, n, 0)
    IN /\ Asegurado(v, n, regla(n))
       /\ SinCambioDeElementos(v)
       /\ n <= capacidad_ => Intacto(v)
       /\ n >= tamano_ =>
            \A x \in Values :
              /\ Asegurado(redimensionar(Self, n, x, 0, FALSE), n, regla(n))
              /\ MismoPrefijo(redimensionar(Self, n, x, 0, FALSE))
ReglaDoble(n) == Max(n, 2 * capacidad_)
ReglaExacta(n) == n

C14_ResizeReduceYEncoge ==
  EntreLlamadas =>
    \A n \in 0..(tamano_ - 1), x \in Values :
      \A rompe \in Rompes(n < capacidad_ \div 2) :
        LET r == redimensionar(Self, n, x, 0, rompe)
        IN /\ Ok(r)
           /\ r.tamano = n
           /\ ContenidoDe(r) = SubSeq(Contenido, 1, n)
           /\ r.capacidad = IF 2 * n < capacidad_ THEN n ELSE capacidad_

\* C15: resize(n, v) with n >= length keeps the elements, appends n - length
\* copies of v, sets length to n and ends with capacity >= n; resize(length,
\* v) changes nothing.
C15_ResizeCreceConCopias ==
  EntreLlamadas =>
    \A n \in tamano_..(MaxCap + 1), x \in Values :
      LET r == redimensionar(Self, n, x, 0, FALSE)
      IN /\ Ok(r) /\ ~r.ub
         /\ r.tamano = n
         /\ ContenidoDe(r) = Contenido \o Repetir(n - tamano_, x)
         /\ r.capacidad >= n
         /\ n = tamano_ => Intacto(r)
C15_Testigo ==
  /\ last.op = "resize" /\ last.exc = "none" /\ last.cambio
  /\ last.tam0 = 1 /\ tamano_ = 3 /\ Contenido = <<2, 1, 1>>

NoDecreciente(seq) == \A k \in 1..(Len(seq) - 1) : seq[k] <= seq[k + 1]
Creciente(seq) == \A k \in 1..(Len(seq) - 1) : seq[k] < seq[k + 1]
Veces(seq, v) == Cardinality({k \in 1..Len(seq) : seq[k] = v})
EsPermutacion(a, b) ==
  /\ Len(a) = Len(b)
  /\ \A k \in 1..Len(a) : Veces(a, a[k]) = Veces(b, a[k])
Distintos(seq) == {seq[k] : k \in 1..Len(seq)}

\* C19: sort() and bubbleSort() each leave a non-decreasing permutation of
\* the elements, with the length, the capacity and the block they found, and
\* the two leave the same sequence.
EnOrden(r) ==
  /\ Ok(r) /\ ~r.ub
  /\ NoDecreciente(ContenidoDe(r))
  /\ EsPermutacion(ContenidoDe(r), Contenido)
  /\ r.tamano = tamano_ /\ r.capacidad = capacidad_ /\ r.datos = datos_
C19_OrdenarYBurbujaCoinciden ==
  EntreLlamadas =>
    /\ EnOrden(ordenar(Self))
    /\ EnOrden(ordenarBurbuja(Self))
    /\ ContenidoDe(ordenar(Self)) = ContenidoDe(ordenarBurbuja(Self))
C19_Testigo ==
  /\ last.op = "bubbleSort" /\ last.exc = "none" /\ last.mod
  /\ last.tam0 = 3 /\ Contenido = <<1, 1, 2>>

\* C20: removeDuplicates() leaves a strictly increasing sequence of exactly
\* the distinct values the container held, its length the number of those
\* values; on a container of at most one element it changes nothing.
C20_DuplicadosOrdenaYColapsa ==
  EntreLlamadas =>
    LET r == eliminarDuplicados(Self)
    IN /\ Ok(r)
       /\ Creciente(ContenidoDe(r))
       /\ Distintos(ContenidoDe(r)) = Distintos(Contenido)
       /\ r.tamano = Cardinality(Distintos(Contenido))
       /\ tamano_ <= 1 => Intacto(r)
C20_Testigo ==
  /\ last.op = "removeDuplicates" /\ last.exc = "none" /\ last.mod
  /\ last.tam0 = 4 /\ Contenido = <<1, 2>>

\* a live Vector that owns nothing
Vacio == [viva |-> TRUE, datos |-> nullptr, tamano |-> 0, capacidad |-> 0]
Este == [viva |-> TRUE, datos |-> datos_, tamano |-> tamano_,
         capacidad |-> capacidad_]

\* C16: move construction gives the new Vector the block, length and
\* capacity of its source, hence its elements, touches no block, and leaves
\* the source with null storage, length 0 and capacity 0; move assignment
\* does the same after destroying the destination's elements, each once, and
\* releasing its block; move assignment of a Vector to itself changes nothing.
C16_MoverTransfiereYVaciaElOrigen ==
  EntreLlamadas =>
    /\ ~otro.viva =>
         LET r == Voltear(Vector_mueve(Voltear(Self)))
         IN /\ Ok(r) /\ r.heap = heap
            /\ r.o = Este
            /\ ContenidoOtroDe(r) = Contenido
            /\ r.datos = nullptr /\ r.tamano = 0 /\ r.capacidad = 0
    /\ otro.viva =>
         /\ LET r == asignar_mueve(Self, FALSE)
            IN /\ Ok(r) /\ ~r.dd /\ ~r.dc /\ ~r.ub
               /\ r.datos = otro.datos /\ r.tamano = otro.tamano
               /\ r.capacidad = otro.capacidad
               /\ ContenidoDe(r) = ContenidoOtro
               /\ r.o = Vacio
               /\ \A b \in Blocks :
                    r.heap[b] = IF b = datos_ THEN BloqueLibre ELSE heap[b]
         /\ LET r == Voltear(asignar_mueve(Voltear(Self), FALSE))
            IN /\ Ok(r) /\ ~r.dd /\ ~r.dc /\ ~r.ub
               /\ r.o = Este
               /\ ContenidoOtroDe(r) = Contenido
               /\ r.datos = nullptr /\ r.tamano = 0 /\ r.capacidad = 0
               /\ \A b \in Blocks :
                    r.heap[b] = IF b = otro.datos THEN BloqueLibre ELSE heap[b]
         /\ LET r == asignar_mueve(Self, TRUE)
            IN Ok(r) /\ Intacto(r) /\ r.o = otro
\* a Vector of two elements of a class type has been assigned, by move, the
\* single element of the other Vector
C16_Testigo ==
  /\ last.op = "move_assign" /\ last.exc = "none" /\ last.cambio
  /\ tipo = "mueve" /\ last.tam0 = 2
  /\ tamano_ = 1 /\ datos_ # nullptr /\ otro = Vacio

NoComparten(s) == (s.o.viva /\ s.datos # nullptr) => s.o.datos # s.datos

\* C17: two live Vectors never point to the same block; a Vector constructed
\* or assigned as a copy holds the element sequence of its source, in a
\* block of its own, and the source is as it was; push_back, pop_back and
\* a write through operator[] on one Vector leave the elements of the other.
C17_CopiasIndependientes ==
  /\ NoComparten(Self)
  /\ EntreLlamadas =>
       /\ ~otro.viva =>
            LET r == Construido(Voltear(Vector_copia(Voltear(Self), 0)))
            IN /\ Ok(r) /\ r.o.viva /\ NoComparten(r)
               /\ ContenidoOtroDe(r) = Contenido
               /\ ContenidoDe(r) = Contenido /\ r.datos = datos_
       /\ otro.viva =>
            /\ LET r == asignar_copia(Self, FALSE, 0)
               IN /\ Ok(r) /\ NoComparten(r)
                  /\ ContenidoDe(r) = ContenidoOtro
                  /\ ContenidoOtroDe(r) = ContenidoOtro /\ r.o = otro
            /\ LET r == Voltear(asignar_copia(Voltear(Self), FALSE, 0))
               IN /\ Ok(r) /\ NoComparten(r)
                  /\ ContenidoOtroDe(r) = Contenido
                  /\ ContenidoDe(r) = Contenido /\ r.datos = datos_
            /\ LET r == asignar_copia(Self, TRUE, 0)
               IN Ok(r) /\ Intacto(r) /\ r.o = otro
            /\ NoComparten(intercambiar(Self))
            /\ ContenidoDe(intercambiar(Self)) = ContenidoOtro
            /\ ContenidoOtroDe(intercambiar(Self)) = Contenido
            /\ \A x \in Values :
                 /\ ContenidoOtroDe(agregarFinal(Self, x, 0)) = ContenidoOtro
                 /\ ContenidoDe(Voltear(agregarFinal(Voltear(Self), x, 0))) = Contenido
                 /\ \A i \in 0..(tamano_ - 1) :
                      ContenidoOtroDe(Asignar(Self, i, x)) = ContenidoOtro
                 /\ \A i \in 0..(otro.tamano - 1) :
                      ContenidoDe(Voltear(Asignar(Voltear(Self), i, x))) = Contenido
            /\ ContenidoOtroDe(eliminarFinal(Self)) = ContenidoOtro
            /\ ContenidoDe(Voltear(eliminarFinal(Voltear(Self)))) = Contenido
\* a second Vector has been constructed as a copy of one of two elements: it
\* holds the same two elements in a block of its own
C17_Testigo ==
  /\ last.op = "copy" /\ last.exc = "none" /\ ~last.mod
  /\ otro.viva /\ datos_ # nullptr /\ otro.datos # nullptr
  /\ otro.datos # datos_
  /\ Contenido = <<1, 2>> /\ ContenidoOtro = <<1, 2>>

Lexicografico(a, b) ==
  \/ Len(a) < Len(b) /\ a = SubSeq(b, 1, Len(a))
  \/ \E k \in 1..Len(a) :
       /\ k <= Len(b) /\ a[k] < b[k]
       /\ \A j \in 1..(k - 1) : a[j] = b[j]

\* C22: for two Vectors a and b of integers, a < b exactly when a comes
\* before b in the dictionary order (smaller at the first position where
\* they differ, or a proper prefix); a <= b iff a < b or a == b; a > b iff
\* b < a; a >= b iff not a < b; a == b iff the lengths are equal and so are
\* the elements at every position.
C22_OrdenLexicografico ==
  (EntreLlamadas /\ otro.viva) =>
    /\ operator_lt(Self) <=> Lexicografico(Contenido, ContenidoOtro)
    /\ operator_le(Self) <=> (operator_lt(Self) \/ operator_eq(Self, FALSE))
    /\ operator_gt(Self) <=> operator_lt(Voltear(Self))
    /\ operator_ge(Self) <=> ~operator_lt(Self)
    /\ operator_eq(Self, FALSE) <=> Contenido = ContenidoOtro
\* <1, 1> has been compared with <1, 2>: it is smaller and not equal
C22_Testigo ==
  /\ last.op = "operator<" /\ last.exc = "none"
  /\ otro.viva /\ Contenido = <<1, 1>> /\ ContenidoOtro = <<1, 2>>
  /\ operator_lt(Self) /\ ~operator_eq(Self, FALSE)

\* C29: for two Vectors a and b, of a floating point type or not, a != b is
\* the negation of a == b; a == a is true; a == b implies b == a.
C29_DistintoNiegaIgual ==
  (EntreLlamadas /\ otro.viva) =>
    \A flotante \in {f \in BOOLEAN : f => tipo = "trivial"} :
      /\ operator_ne(Self) <=> ~operator_eq(Self, flotante)
      /\ operator_eq(ConsigoMismo(Self), flotante)
      /\ operator_eq(Self, flotante) => operator_eq(Voltear(Self), flotante)

\* C23: for a ReverseIterator and a ConstReverseIterator at slot p,
\* increment gives slot p - 1 and decrement slot p + 1, r + n is n increments
\* further, (r + n) - r = n, rend() - rbegin() = length, and base() is the
\* forward cursor at slot p + 1.
C23_CursoresInversos ==
  cursor.clase \in Inversas =>
    LET c == Clase(cursor.clase)
    IN /\ \A p \in {cursor.a, cursor.b} :
            /\ c.inc[p] = p - 1
            /\ c.dec[p] = p + 1
            /\ c.base[p] = p + 1
            /\ \A n \in 0..MaxCap :
                 /\ c.mas[p, n] = p - n
                 /\ c.dist[c.mas[p, n], p] = n
       /\ c.dist[Final(Self, cursor.clase), Principio(Self, cursor.clase)] = tamano_

\* a is before b in the direction in which a cursor of class k moves
Antes(k, a, b) == IF k \in Inversas THEN a > b ELSE a < b

\* C27: for two cursors a and b of one class into one Vector, exactly one
\* of a < b, a == b, a > b holds; a <= b iff a < b or a == b; a >= b iff
\* a > b or a == b; a != b iff not a == b; and a < b iff a is met before b
\* when moving in the direction of the class.
C27_ComparacionesDeCursores ==
  cursor.clase \in Clases =>
    LET c == Clase(cursor.clase)
        a == cursor.a
        b == cursor.b
    IN /\ Cardinality({f \in {"lt", "eq", "gt"} : c[f][a, b]}) = 1
       /\ c.le[a, b] <=> (c.lt[a, b] \/ c.eq[a, b])
       /\ c.ge[a, b] <=> (c.gt[a, b] \/ c.eq[a, b])
       /\ c.ne[a, b] <=> ~c.eq[a, b]
       /\ c.lt[a, b] <=> Antes(cursor.clase, a, b)

\* s[0..i) followed by vs followed by s[i..)
InsertarVarios(seq, i, vs) == SubSeq(seq, 1, i) \o vs \o SubSeq(seq, i + 1, Len(seq))
\* a call that ended without an exception and without undefined behaviour
Limpio(r) == Ok(r) /\ ~r.ub /\ ~r.dc /\ ~r.dd

\* C24: for a container holding s, any i <= length and any Vector v, of
\* length 0, 1 or more or the container itself, insert_vector(i, v) yields
\* s[0..i), the elements v had at the call, s[i..length); the length grows
\* by v's length and the capacity is at least the new length.
C24_InsertVectorColocaLaCopia ==
  EntreLlamadas =>
    \A i \in 0..tamano_, v \in Rangos :
      LET r == insertarVector(Self, i, v, 0)
          vs == ValoresDe(Self, v)
      IN /\ Limpio(r)
         /\ ContenidoDe(r) = InsertarVarios(Contenido, i, vs)
         /\ r.tamano = tamano_ + Len(vs)
         /\ r.capacidad >= r.tamano

\* C25: insert_range(pos, r) with pos <= length yields s[0..pos), the
\* elements of r in order, s[pos..length), adds the number of elements of r
\* to the length and returns a cursor at pos; when r is the container itself
\* the elements inserted are those it held before the call; and
\* append_range(r) gives what insert_range(length, r) gives.
C25_InsertRangeColocaElRango ==
  EntreLlamadas =>
    \A r \in Rangos :
      LET vs == ValoresDe(Self, r)
          fin == insertarRango(Self, tamano_, r, 0)
          ap == agregarRango(Self, r, 0)
      IN /\ \A pos \in 0..tamano_ :
              LET n == insertarRango(Self, pos, r, 0)
              IN /\ Limpio(n)
                 /\ ContenidoDe(n) = InsertarVarios(Contenido, pos, vs)
                 /\ n.tamano = tamano_ + Len(vs)
                 /\ n.ret = pos
         /\ Limpio(ap)
         /\ ContenidoDe(ap) = ContenidoDe(fin)
         /\ ap.tamano = fin.tamano
         /\ ap.capacidad = fin.capacidad

\* the block ~Vector hands to alloc.deallocate(datos_, capacidad_) came from
\* alloc.allocate and has capacidad_ slots
MismoAsignador(s) ==
  s.datos # nullptr =>
    s.heap[s.datos].por = "alloc" /\ s.heap[s.datos].n = s.capacidad
\* the container s goes out of scope: every element is destroyed once and
\* nothing of it stays allocated
SeLiberaTodo(s) ==
  LET d == destructor(s)
  IN /\ MismoAsignador(s)
     /\ Limpio(d)
     /\ \A b \in Blocks : ~(s.o.viva /\ b = s.o.datos) => d.heap[b].por = "libre"

\* C26: whatever was called before, destroying the container destroys every
\* constructed element exactly once and releases every block exactly once,
\* through the allocator it came from and with its slot count; so it is
\* when the block was installed by shrink_to_fit or by a shrinking resize.
C26_CadaBloqueSeLiberaUnaVez ==
  EntreLlamadas =>
    /\ SeLiberaTodo(Self)
    /\ \A rompe \in Rompes(capacidad_ > tamano_) :
         LET r == reducirCapacidad(Self, rompe)
         IN Limpio(r) /\ SeLiberaTodo(r)
    /\ \A n \in 0..tamano_, x \in Values :
         \A rompe \in Rompes(n < capacidad_ \div 2) :
           LET r == redimensionar(Self, n, x, 0, rompe)
           IN Limpio(r) /\ SeLiberaTodo(r)

\* what a caller can observe of r: it holds the sequence sec in a block of
\* cap slots, and the slots that hold an element are those below the length,
\* which is all a trivially copyable type can leave
Observado(r, sec, cap) ==
  /\ Ok(r)
  /\ ContenidoDe(r) = sec
  /\ r.tamano = Len(sec)
  /\ r.capacidad = cap
  /\ tipo # "trivial" =>
       \A k \in 0..(cap - 1) : Leer(r, r.datos, k).viva <=> k < r.tamano

\* C28: the path taken for a trivially copyable type (memmove) and the one
\* taken for any other type (move-construct, then destroy, slot by slot) are
\* not told apart: insert(index, value), erase(iterator) and
\* erase(first, last) leave the sequence, the length, the capacity and the
\* set of slots holding an element that the sequence before the call and
\* the arguments determine, whatever the element type.
C28_RutaRapidaNoObservable ==
  EntreLlamadas =>
    /\ \A i \in 0..tamano_, x \in Values :
         Observado(insertar(Self, i, x, 0), InsertarEn(Contenido, i, x),
                   IF tamano_ = capacidad_ THEN Doble(Self) ELSE capacidad_)
    /\ \A it \in 0..(tamano_ - 1) :
         Observado(erase_it(Self, it), QuitarRango(Contenido, it, it + 1), capacidad_)
    /\ \A first \in 0..tamano_ : \A last_ \in first..tamano_ :
         Observado(erase_rango(Self, first, last_),
                   QuitarRango(Contenido, first, last_), capacidad_)

\* the call left the capacity and the block alone
MismaCapacidad(r) == r.capacidad = capacidad_ /\ r.datos = datos_
\* the call left the length, the capacity, the block and every element alone
NadaCambia(r) ==
  /\ MismaCapacidad(r) /\ r.tamano = tamano_
  /\ ContenidoDe(r) = Contenido
  /\ datos_ # nullptr => r.heap[datos_] = heap[datos_]

\* C30: pop_back, erase(index), erase(iterator), erase(first, last),
\* eliminarDato, vaciar, reverse, sort and reemplazar never change the
\* capacity or the block; push_back, insert and emplace leave them when
\* length < capacity; at, buscar, contiene, contar, slice, == and the
\* creation of a cursor change neither length, capacity nor any element.
C30_SoloCiertasLlamadasCambianLaCapacidad ==
  EntreLlamadas =>
    /\ MismaCapacidad(eliminarFinal(Self))
    /\ \A i \in Indices :
         /\ MismaCapacidad(eliminar(Self, i))
         /\ MismaCapacidad(erase_it(Self, i))
         /\ NadaCambia(at(Self, i))
         /\ \A j \in Indices :
              /\ MismaCapacidad(erase_rango(Self, i, j))
              /\ ~otro.viva => NadaCambia(subvector(Self, i, j))
    /\ MismaCapacidad(vaciar(Self))
    /\ MismaCapacidad(invertir(Self))
    /\ MismaCapacidad(ordenar(Self))
    /\ \A x \in Values :
         /\ MismaCapacidad(eliminarDato(Self, x))
         /\ \A y \in Values : MismaCapacidad(reemplazar(Self, x, y))
         /\ NadaCambia(Consulta(Self, buscar(Self, x)))
         /\ NadaCambia(Consulta(Self, IF contiene(Self, x) THEN 1 ELSE 0))
         /\ NadaCambia(Consulta(Self, contar(Self, x)))
         /\ tamano_ < capacidad_ =>
              /\ MismaCapacidad(agregarFinal(Self, x, 0))
              /\ \A i \in 0..tamano_ :
                   /\ MismaCapacidad(insertar(Self, i, x, 0))
                   /\ MismaCapacidad(emplace(Self, i, x, 0))
    /\ \A f \in {g \in BOOLEAN : g => tipo = "trivial"} :
         NadaCambia(Booleano(Self, operator_eq(Self, f)))
    /\ \A k \in Clases :
         /\ Principio(Self, k) \in Pos /\ Final(Self, k) \in Pos
         /\ NadaCambia(Consulta(Self, Principio(Self, k)))
         /\ NadaCambia(Consulta(Self, Final(Self, k)))
\* reverse has turned 1, 2 round in a block of four slots, which it kept
C30_Testigo ==
  /\ last.op = "reverse" /\ last.exc = "none" /\ ~last.ub /\ last.mod
  /\ ~last.cambio /\ Contenido = <<2, 1>> /\ capacidad_ = 4

\* C18: after a sort that returns the sorted hint is true; after a mutable
\* operator[] or at that returns it is false; and whenever the hint is true
\* the live range is non-decreasing
C18_PistaSoloSiOrdenado ==
  /\ is_sorted_hint => NoDecreciente(Contenido)
  /\ (last.op = "sort" /\ last.exc = "none") => is_sorted_hint
  /\ (last.op \in {"operator[]", "at"} /\ last.exc = "none") => ~is_sorted_hint
\* a write through operator[] into a sequence known to be sorted has put it
\* out of order
C18_Testigo ==
  /\ last.op = "operator[]" /\ last.exc = "none" /\ ~last.ub
  /\ last.pista0 /\ ~is_sorted_hint
  /\ Len(Contenido) = 3 /\ ~NoDecreciente(Contenido)

NextDos ==
  \/ copy_construct
  \/ move_construct
  \/ copy_assign
  \/ move_assign
  \/ swap
  \/ destroy
  \/ slice
  \/ equals
  \/ less
  \/ push_back_dos
  \/ pop_back_dos
  \/ index_write_dos
  \/ Retorno

NextPista ==
  \/ index_write
  \/ sort
  \/ bubbleSort
  \/ removeDuplicates
  \/ push_back_pista
  \/ insert_pista
  \/ erase_pista
  \/ resize_pista
  \/ clear_pista
  \/ at_pista
  \/ reverse
  \/ replace
  \/ remove_value
  \/ query
  \/ Retorno

NextCursor ==
  \/ cursor_begin_end
  \/ cursor_step
  \/ cursor_plus
  \/ cursor_distance
  \/ cursor_compare
  \/ Retorno

Spec == Init /\ [][Next]_vars

\* the cursors of a Vector that no call changes meanwhile
SpecCursor == Init /\ [][NextCursor]_vars

\* a Vector that keeps the sorted hint, with the calls that set, keep or
\* clear it
SpecPista == Init /\ [][NextPista]_vars

\* two Vectors of one program: copies, moves, swaps, and changes to either
SpecDos == Init /\ [][NextDos]_vars
====
